---- MODULE Spec2Model ----
(***************************************************************************)
(* Model of the etterna-base crate: the rating calculator                  *)
(* (src/src/rating_calc.rs), the naive scoring system and the rescore      *)
(* orchestrator (src/src/rescore), Wife::apply (src/src/wife/mod.rs), the  *)
(* skill timeline (src/src/lib.rs), the overall values of a skillset       *)
(* vector (src/src/skillsets.rs), the judges (src/src/judge.rs), Wifescore *)
(* (src/src/structs.rs, src/src/structs/mod.rs), the note subset search    *)
(* (src/src/note_subsets.rs) and the replay parser (src/src/savegame.rs).  *)
(*                                                                         *)
(* Numbers.  TLA+ has no floating point, so every f32 quantity is an       *)
(* integer count of a fixed unit:                                          *)
(*   - ratings and resolutions are counted in units of the final           *)
(*     resolution 10.24 / 2^11 (= 0.005), so 10.24 is 2048 units; halving  *)
(*     is exact in binary floating point, and an f32 addition is the exact *)
(*     sum rounded to 24 significant bits (RoundF32); the unit is taken as *)
(*     exact, i.e. the rounding of the literal 10.24 itself is left out;   *)
(*   - times are counted in units of 95 ms (the "avedeviation" of Wife2    *)
(*     at timing_scale 1), wife points in units of 2^-18;                  *)
(*   - the windows of a judge and the deviations given to it are counted   *)
(*     in microseconds;                                                    *)
(*   - the seconds of the note subset search are small integers and its    *)
(*     speeds are fractions [class, num, den] compared by cross            *)
(*     multiplication.                                                     *)
(***************************************************************************)
EXTENDS Integers, Sequences, FiniteSets, TLC

VARIABLES
    \* ---- calc_rating (src/src/rating_calc.rs) ----
    root,              \* input: the largest candidate rating that is not okay
    final_multiplier,  \* input: final_multiplier, in thousandths
    rating,            \* local `rating`
    resolution,        \* local `resolution`
    iters,             \* number of completed iterations of `for _ in 0..num_iters`
    incs,              \* increments done by the while loop in the current iteration
    result,            \* the returned value, or NoResult
    pc_rating,         \* "idle" | "while" (at the loop test) | "body" | "done"
    \* ---- NaiveScorer::evaluate (src/src/rescore/naive_scorer.rs) ----
    note_seconds,      \* input: lane.note_seconds
    hit_seconds,       \* input: lane.hit_seconds
    bad_window,        \* input: judge.bad_window
    notes,             \* local `notes`: Vec<Note { second, is_claimed }>
    hit_idx,           \* number of hits the `for hit_second in hit_seconds` loop has done
    wifescore_sum,     \* local `wifescore_sum`
    assignment,        \* history: the pairs <<hit index, note index>> claimed so far
    scoring_result,    \* the returned ScoringResult, or NoScoringResult
    pc_eval,           \* "idle" | "start" | "hits" | "done" | "panicked"
    \* ---- rescore (src/src/rescore/mod.rs) and Wife::apply (src/src/wife/mod.rs) ----
    column_scoring_result,  \* local `column_scoring_result` of the current lane
    lanes_done,        \* number of lanes that loop has done
    judge_bad_window,  \* input: judge.bad_window
    num_mine_hits,     \* input, set when the code reads it
    num_hold_drops,    \* input, set when the code reads it
    rescore_wifescore_sum,     \* local `wifescore_sum` of rescore / of apply
    rescore_num_judged_notes,  \* local `num_judged_notes` of rescore, `num_note_hits` of apply
    last_hit,          \* the Hit of the current iteration of `for hit in note_hits`
    wifescore,         \* what was returned: NotReturned, None or Some(Wifescore)
    pc_rescore,        \* "idle" | "lanes" | "apply" | "done" | "panicked"
    \* ---- SkillTimeline::calculate (src/src/lib.rs) ----
    scores,            \* input: the items (day_id, ssr) of `iterator`
    score_idx,         \* number of items the `for (day_id, ssr) in iterator` loop has done
    rating_vectors,    \* local `rating_vectors`: [Vec<f32>; 7]
    day_indices,       \* local `day_indices`: Vec<(T, usize)>
    prev_day_id,       \* local `prev_day_id`: Option<T>, NoDay for None
    parallel,          \* input: whether the crate is built with feature "parallel"
    num_workers,       \* input: number of worker threads that run the map closure
    in_flight,         \* indices of day_indices whose closure call is running
    collected,         \* the slots `.collect()` fills, NoChange where not yet filled
    out_of_order,      \* history: some closure call finished before an earlier item's
    changes,           \* field `changes` of the returned SkillTimeline
    pc_timeline,       \* "idle" | "iterate" | "map" | "done"
    \* ---- Skillsets7::calc_ssr_overall / calc_player_overall (src/src/skillsets.rs) ----
    skillsets,         \* input: `self`, the seven skillset values
    overall_fn,        \* input: which of the two functions is called
    skillsets8,        \* the returned Skillsets8, or NoSkillsets8
    pc_overall,        \* "idle" | "aggregate" (in calc_rating) | "done"
    \* ---- Judge and Hit (src/src/judge.rs, src/src/structs.rs), Wife::calc ----
    judge,             \* input: the Judge, NoJudge when idle
    tap_deviation,     \* input: a tap deviation, in microseconds
    other_deviation,   \* input: a second tap deviation
    judgement,         \* what judge.classify(tap_deviation) returned, or "none"
    other_judgement,   \* what judge.classify(other_deviation) returned, or "none"
    cb,                \* what judge.is_cb(tap_deviation) returned: "true" | "false" | "none"
    hit,               \* input: the Hit given to Hit::is_cb and to Wife::calc
    hit_cb,            \* what hit.is_cb(judge) returned: "true" | "false" | "none"
    wife_score,        \* what Wife2::calc(hit, judge) returned, or NoScore
    pc_judge,          \* "idle" | "classify" | "classify_other" | "is_cb" | "hit_is_cb" | "calc" | "done"
    \* ---- Wifescore (src/src/structs.rs, src/src/structs/mod.rs) ----
    structs_file,      \* input: the file `mod structs;` is compiled from
    wifescore_fn,      \* input: the constructor called, "idle" when none
    proportion_arg,    \* input: the f32 argument of from_proportion / from_percent
    made_wifescore,    \* what the constructor returned, or NotReturned
    cmp_self,          \* input: `self` of Ord::cmp, NotReturned when cmp is not called
    cmp_other,         \* input: `other` of Ord::cmp
    ordering,          \* "none" | "Less" | "Equal" | "Greater" | "panicked"
    \* ---- note subsets (src/src/note_subsets.rs) ----
    subset_fn,         \* input: which of the three functions is called, "none" when idle
    subset_seconds,    \* input: `seconds`
    min_num_notes,     \* input
    max_num_notes,     \* input
    wife_pts,          \* input: `wife_pts`, NoWifePts for None / no such parameter
    are_cbs,           \* input: the items of `are_cbs`
    rate,              \* input: `rate`
    subset_n,          \* loop variable `n`
    subset_i,          \* loop variable `i`
    fastest,           \* local `fastest`; the returned value once pc_subset is "done"
    wife_pts_sum,      \* local `wife_pts_sum`
    wife_pts_sum_start,  \* local `wife_pts_sum_start`
    combo_start_i,     \* local `combo_start_i`: Option<usize>, NoIndex for None
    cb_i,              \* number of items the `for (i, is_cb) in are_cbs` loop has done
    fastest_combo,     \* local `fastest_combo`; the returned value once pc_subset is "done"
    pc_subset,         \* "idle" | "start" | "windows" | "cbs" | "done" | "panicked"
    \* ---- parse_replay_v2_fast (src/src/savegame.rs) ----
    replay_bytes,      \* input: `bytes`, a sequence of one-character strings
    overflow_checks,   \* input: whether the build checks integer overflow (debug)
    lines_done,        \* number of lines the `for line in ..` loop has done
    replay_notes,      \* local `notes`
    replay_num_mine_hits,   \* local `num_mine_hits`
    replay_num_hold_drops,  \* local `num_hold_drops`
    pc_parse           \* "idle" | "lines" | "done" | "panicked"

ratingVars == <<root, final_multiplier, rating, resolution, iters, incs, result, pc_rating>>

scorerVars == <<note_seconds, hit_seconds, bad_window, notes, hit_idx, wifescore_sum,
                assignment, scoring_result, pc_eval>>

rescoreVars == <<column_scoring_result, lanes_done, judge_bad_window, num_mine_hits, num_hold_drops,
                 rescore_wifescore_sum, rescore_num_judged_notes, last_hit, wifescore,
                 pc_rescore>>

timelineVars == <<scores, score_idx, rating_vectors, day_indices, prev_day_id, parallel,
                  num_workers, in_flight, collected, out_of_order, changes, pc_timeline>>

overallVars == <<skillsets, overall_fn, skillsets8, pc_overall>>

judgeVars == <<judge, tap_deviation, other_deviation, judgement, other_judgement, cb, hit,
               hit_cb, wife_score, pc_judge>>

cmpVars == <<cmp_self, cmp_other, ordering>>

wifescoreVars == <<structs_file, wifescore_fn, proportion_arg, made_wifescore, cmpVars>>

subsetVars == <<subset_fn, subset_seconds, min_num_notes, max_num_notes, wife_pts, are_cbs,
                rate, subset_n, subset_i, fastest, wife_pts_sum, wife_pts_sum_start,
                combo_start_i, cb_i, fastest_combo, pc_subset>>

parseVars == <<replay_bytes, overflow_checks, lines_done, replay_notes, replay_num_mine_hits,
               replay_num_hold_drops, pc_parse>>

vars == <<ratingVars, scorerVars, rescoreVars, timelineVars, overallVars, judgeVars,
          wifescoreVars, subsetVars, parseVars>>

\* what an action of one component leaves unchanged
exceptRating == <<scorerVars, rescoreVars, timelineVars, overallVars, judgeVars,
                   wifescoreVars, subsetVars, parseVars>>

exceptScorer == <<ratingVars, rescoreVars, timelineVars, overallVars, judgeVars,
                   wifescoreVars, subsetVars, parseVars>>

exceptRescore == <<ratingVars, scorerVars, timelineVars, overallVars, judgeVars,
                   wifescoreVars, subsetVars, parseVars>>

exceptTimeline == <<ratingVars, scorerVars, rescoreVars, overallVars, judgeVars,
                   wifescoreVars, subsetVars, parseVars>>

exceptOverall == <<scorerVars, rescoreVars, timelineVars, judgeVars,
                   wifescoreVars, subsetVars, parseVars>>

exceptJudge == <<ratingVars, scorerVars, rescoreVars, timelineVars, overallVars,
                   wifescoreVars, subsetVars, parseVars>>

exceptWifescore == <<ratingVars, scorerVars, rescoreVars, timelineVars, overallVars,
                     judgeVars, subsetVars, parseVars>>

exceptSubset == <<ratingVars, scorerVars, rescoreVars, timelineVars, overallVars,
                  judgeVars, wifescoreVars, parseVars>>

exceptParse == <<ratingVars, scorerVars, rescoreVars, timelineVars, overallVars,
                 judgeVars, wifescoreVars, subsetVars>>

NoResult == [whole |-> -1, milli |-> 0]

(***************************************************************************)
(* States of the components that a specification does not run              *)
(***************************************************************************)
NoScoringResult == [wifescore_sum |-> 0, num_judged_notes |-> -1]

IdleRating ==
    /\ root = -1
    /\ final_multiplier = 0
    /\ rating = 0
    /\ resolution = 0
    /\ iters = 0
    /\ incs = 0
    /\ result = NoResult
    /\ pc_rating = "idle"

NoHit == [hit |-> "none"]

NotReturned == [some |-> FALSE, returned |-> FALSE]

IdleRescore ==
    /\ column_scoring_result = NoScoringResult
    /\ lanes_done = 0
    /\ judge_bad_window = 0
    /\ num_mine_hits = 0
    /\ num_hold_drops = 0
    /\ rescore_wifescore_sum = 0
    /\ rescore_num_judged_notes = 0
    /\ last_hit = NoHit
    /\ wifescore = NotReturned
    /\ pc_rescore = "idle"

NoDay == 0

NUM_SKILLSETS == 7

IdleTimeline ==
    /\ scores = <<>>
    /\ score_idx = 0
    /\ rating_vectors = [j \in 1..NUM_SKILLSETS |-> <<>>]
    /\ day_indices = <<>>
    /\ prev_day_id = NoDay
    /\ parallel = FALSE
    /\ num_workers = 1
    /\ in_flight = {}
    /\ collected = <<>>
    /\ out_of_order = FALSE
    /\ changes = <<>>
    /\ pc_timeline = "idle"

NoSkillsets8 == [overall |-> [nan |-> TRUE, whole |-> 0, milli |-> 0], skillsets |-> <<>>]

IdleOverall ==
    /\ skillsets = <<>>
    /\ overall_fn = "none"
    /\ skillsets8 = NoSkillsets8
    /\ pc_overall = "idle"

NoJudge == [name |-> "none"]

NoScore == 1000000

IdleJudge ==
    /\ judge = NoJudge
    /\ tap_deviation = 0
    /\ other_deviation = 0
    /\ judgement = "none"
    /\ other_judgement = "none"
    /\ cb = "none"
    /\ hit = NoHit
    /\ hit_cb = "none"
    /\ wife_score = NoScore
    /\ pc_judge = "idle"

NoArg == [class |-> "none", num |-> 0, den |-> 0]

IdleWifescore ==
    /\ structs_file = "structs.rs"
    /\ wifescore_fn = "idle"
    /\ proportion_arg = NoArg
    /\ made_wifescore = NotReturned
    /\ cmp_self = NotReturned
    /\ cmp_other = NotReturned
    /\ ordering = "none"

NoWifePts == [some |-> FALSE, pts |-> <<>>]

NoIndex == -1

\* `FastestComboInfo::default()`, also the dummy values of `fastest`
DefaultFastestComboInfo ==
    [start_second |-> 0, end_second |-> 0, length |-> 0,
     speed |-> [class |-> "finite", num |-> 0, den |-> 1]]

IdleSubset ==
    /\ subset_fn = "none"
    /\ subset_seconds = <<>>
    /\ min_num_notes = 0
    /\ max_num_notes = 0
    /\ wife_pts = NoWifePts
    /\ are_cbs = <<>>
    /\ rate = 1
    /\ subset_n = 0
    /\ subset_i = 0
    /\ fastest = DefaultFastestComboInfo
    /\ wife_pts_sum = 0
    /\ wife_pts_sum_start = 0
    /\ combo_start_i = NoIndex
    /\ cb_i = 0
    /\ fastest_combo = DefaultFastestComboInfo
    /\ pc_subset = "idle"

IdleParse ==
    /\ replay_bytes = <<>>
    /\ overflow_checks = FALSE
    /\ lines_done = 0
    /\ replay_notes = <<>>
    /\ replay_num_mine_hits = 0
    /\ replay_num_hold_drops = 0
    /\ pc_parse = "idle"

IdleScorer ==
    /\ note_seconds = <<>>
    /\ hit_seconds = <<>>
    /\ bad_window = 0
    /\ notes = <<>>
    /\ hit_idx = 0
    /\ wifescore_sum = 0
    /\ assignment = {}
    /\ scoring_result = NoScoringResult
    /\ pc_eval = "idle"

(***************************************************************************)
(* f32 arithmetic on non-negative unit counts                              *)
(***************************************************************************)
F32_MANTISSA_DIGITS == 24

Pow2(n) == 2 ^ n

\* spacing of the f32 values around x: 1 below 2^24, then doubling per binade
Ulp(x) ==
    CHOOSE u \in {Pow2(j) : j \in 0..6} :
        /\ x < Pow2(F32_MANTISSA_DIGITS) * u
        /\ (u = 1 \/ x >= Pow2(F32_MANTISSA_DIGITS - 1) * u)

\* round to nearest representable value, ties to even
RoundF32(x) ==
    LET u == Ulp(x)
        q == x \div u
        r == x % u
    IN  IF 2 * r < u THEN q * u
        ELSE IF 2 * r > u THEN (q + 1) * u
        ELSE IF q % 2 = 0 THEN q * u ELSE (q + 1) * u

\* rating * final_multiplier, final_multiplier in thousandths; the product is
\* kept as whole units and thousandths of a unit
MulMilli(x, m) ==
    LET a == x \div 1000
        b == x % 1000
    IN  [whole |-> a * m + (b * m) \div 1000, milli |-> (b * m) % 1000]

(***************************************************************************)
(* rating_calc.rs                                                          *)
(***************************************************************************)
num_iters == 11

InitialResolution == 2048

\* (final_multiplier, in thousandths) of calculate_score_overall,
\* calculate_player_skillset_rating, calculate_player_skillset_rating_pre_070
\* and calculate_player_overall
FinalMultipliers == {1110, 1050, 1040, 1125}

\* is_rating_okay compares power_sum, which falls as the candidate rating
\* grows, with max_power_sum = 2^(rating * 0.1), which rises with it: for
\* given ssrs and delta_multiplier the test is a threshold test, and the
\* input of the model is that threshold (root = -1: okay everywhere, as for
\* an empty ssrs array).
is_rating_okay(candidate, t) == candidate > t

\* the model counts the increments of one iteration up to this cap
IncsCap == 2

WhileCondition == ~ is_rating_okay(RoundF32(rating + resolution), root)

\* `while !is_rating_okay(rating + resolution, ..)` holds: enter the loop body
EnterBody ==
    /\ pc_rating = "while"
    /\ iters < num_iters
    /\ WhileCondition
    /\ pc_rating' = "body"
    /\ UNCHANGED <<root, final_multiplier, rating, resolution, iters, incs, result>>
    /\ UNCHANGED exceptRating

\* `rating += resolution;` inside the while loop
Increment ==
    /\ pc_rating = "body"
    /\ rating' = RoundF32(rating + resolution)
    /\ incs' = IF incs < IncsCap THEN incs + 1 ELSE incs
    /\ pc_rating' = "while"
    /\ UNCHANGED <<root, final_multiplier, resolution, iters, result>>
    /\ UNCHANGED exceptRating

\* the while loop exits; `resolution /= 2.0;`
Halve ==
    /\ pc_rating = "while"
    /\ iters < num_iters
    /\ ~ WhileCondition
    /\ resolution' = resolution \div 2
    /\ iters' = iters + 1
    /\ incs' = 0
    /\ UNCHANGED <<root, final_multiplier, rating, result, pc_rating>>
    /\ UNCHANGED exceptRating

\* Return without the doubling of the final resolution
Return_NoDoubling ==
    /\ pc_rating = "while"
    /\ iters = num_iters
    /\ rating' = RoundF32(rating + resolution)
    /\ result' = MulMilli(rating', final_multiplier)
    /\ pc_rating' = "done"
    /\ UNCHANGED <<root, final_multiplier, resolution, iters, incs>>
    /\ UNCHANGED exceptRating

\* `rating += resolution * 2.0; rating * final_multiplier`
Return ==
    /\ pc_rating = "while"
    /\ iters = num_iters
    /\ rating' = RoundF32(rating + resolution * 2)
    /\ result' = MulMilli(rating', final_multiplier)
    /\ pc_rating' = "done"
    /\ UNCHANGED <<root, final_multiplier, resolution, iters, incs>>
    /\ UNCHANGED exceptRating

\* ---- inputs of calc_rating ----
MaxRoot == 4200

\* roots in the range where the spacing of f32 exceeds the last resolutions
LargeRoots == {Pow2(25), Pow2(25) + 4, Pow2(25) + 5}

RootInputs == (-1 .. MaxRoot) \cup LargeRoots

InitRating ==
    /\ root \in RootInputs
    /\ final_multiplier \in FinalMultipliers
    /\ rating = 0
    /\ resolution = InitialResolution
    /\ iters = 0
    /\ incs = 0
    /\ result = NoResult
    /\ pc_rating = "while"
    /\ IdleScorer
    /\ IdleRescore
    /\ IdleTimeline
    /\ IdleOverall
    /\ IdleJudge
    /\ IdleWifescore
    /\ IdleSubset
    /\ IdleParse

NextRating == EnterBody \/ Increment \/ Halve \/ Return

SpecRating == InitRating /\ [][NextRating]_vars

\* calc_rating runs on its own thread of control: a step that can be taken is taken
FairSpecRating == SpecRating /\ WF_vars(NextRating)

(***************************************************************************)
(* Claims about calc_rating                                                *)
(***************************************************************************)

\* C1: calc_rating starts at rating 0 and resolution 10.24 (2048 units) and
\* returns only after exactly 11 outer steps; the resolution of step k is
\* 2048 / 2^k; the while loop adds the current resolution (an f32 addition)
\* only while rating + resolution is not okay, and the resolution is halved
\* only when rating + resolution is okay; after the 11th halving the
\* resolution is 1 unit, 2 x that is added to rating, and the result is
\* rating x final_multiplier.
C1_Algorithm ==
    /\ [](/\ iters \in 0..11
          /\ resolution * (2 ^ iters) = 2048
          /\ (iters = 0 /\ incs = 0 => rating = 0)
          /\ (pc_rating = "body" => iters < 11)
          /\ (pc_rating = "done" => iters = 11 /\ resolution = 1)
          /\ (pc_rating # "done" => result = NoResult))
    /\ [][/\ (pc_rating' = "body" =>
                 /\ ~ (RoundF32(rating + resolution) > root)
                 /\ rating' = rating
                 /\ resolution' = resolution)
          /\ (pc_rating = "body" =>
                 /\ rating' = RoundF32(rating + resolution)
                 /\ resolution' = resolution
                 /\ iters' = iters)
          /\ (iters' # iters =>
                 /\ RoundF32(rating + resolution) > root
                 /\ iters' = iters + 1
                 /\ 2 * resolution' = resolution
                 /\ rating' = rating)
          /\ (pc_rating' = "done" /\ pc_rating = "while" =>
                 /\ iters = 11
                 /\ rating' = RoundF32(rating + 2 * resolution)
                 /\ result' = MulMilli(rating', final_multiplier))]_vars

C1_Witness ==
    /\ pc_rating = "done"
    /\ root = 4200
    /\ rating = 4202
    /\ final_multiplier = 1110
    /\ result = [whole |-> 4664, milli |-> 220]

\* C2: with a monotone okay test of root T >= 0, the pre-multiplier result R
\* satisfies T <= R <= T + 2 x final_resolution (final_resolution = 1 unit).
C2_WithinTwoFinalResolutions ==
    (pc_rating = "done" /\ root >= 0) =>
        (root <= rating /\ rating <= root + 2 * resolution)

\* C3: calc_rating terminates on every input.
C3_Terminates == <>(pc_rating = "done")

\* C30: with a monotone okay test, at the end of every outer step rating +
\* (the resolution just used) is okay, and in every outer step after the
\* first the while loop increments rating at most once; only the first step
\* (resolution 10.24) can increment rating more than once.
C30_AtMostOneIncrementAfterFirstStep ==
    /\ [][iters' # iters => is_rating_okay(RoundF32(rating + resolution), root)]_vars
    /\ [](iters >= 1 => incs <= 1)

\* the same for the roots up to MaxRoot, where every sum of the loop is exact
C30_HoldsWhereSumsAreExact ==
    (root <= MaxRoot /\ iters >= 1) => incs <= 1

(***************************************************************************)
(* wife/wife2.rs: Wife2, in wife points of 2^-18                           *)
(***************************************************************************)
Abs(x) == IF x < 0 THEN -x ELSE x

WIFE_FRACTION_BITS == 18

WifeOne == Pow2(WIFE_FRACTION_BITS)

\* 2^(-k) in wife points, truncated
PowNeg2(k) == IF k <= WIFE_FRACTION_BITS THEN Pow2(WIFE_FRACTION_BITS - k) ELSE 0

INNER_MISS_WEIGHT == -8
INNER_HOLD_DROP_WEIGHT == -6
INNER_MINE_HIT_WEIGHT == -8

MISS_WEIGHT == (INNER_MISS_WEIGHT * WifeOne) \div 2
HOLD_DROP_WEIGHT == (INNER_HOLD_DROP_WEIGHT * WifeOne) \div 2
MINE_HIT_WEIGHT == (INNER_MINE_HIT_WEIGHT * WifeOne) \div 2

\* Wife2::calc_deviation; the deviation is in units of avedeviation
\* (95 ms * judge.timing_scale), so maxms / avedeviation = |deviation|:
\*   y = (1 - 2^(-maxms^2 / avedeviation^2))^2 = 1 - 2 * 2^(-d^2) + 2^(-2 d^2)
\*   score = (2 - -8) * (1 - y) + -8;  score / 2
calc_deviation(deviation) ==
    LET maxms == Abs(deviation)
        y == WifeOne - 2 * PowNeg2(maxms * maxms) + PowNeg2(2 * maxms * maxms)
        score == (2 - (-8)) * (WifeOne - y) + (-8) * WifeOne
    IN  score \div 2

(***************************************************************************)
(* rescore/naive_scorer.rs: NaiveScorer::evaluate                          *)
(***************************************************************************)
\* crate::util::is_sorted: ascending, equal neighbours allowed
is_sorted(s) == \A i \in 1..(Len(s) - 1) : s[i] <= s[i + 1]

\* f32::INFINITY: above every deviation of the model
F32_INFINITY == 1000000

\* `best_note = None; best_note_deviation = f32::INFINITY;
\*  best_note_deviation_no_abs = 0.0`
NoBestNote == [best_note |-> 0, best_note_deviation |-> F32_INFINITY,
               best_note_deviation_no_abs |-> 0]

\* ScanNote where a later note that is equally close replaces the best one
ScanNote_LastWins(ns, i, hit_second, bw, best) ==
    LET deviation == Abs(hit_second - ns[i].second)
    IN  IF deviation > bw THEN best
        ELSE IF ns[i].is_claimed THEN best
        ELSE IF deviation <= best.best_note_deviation
             THEN [best_note |-> i, best_note_deviation |-> deviation,
                   best_note_deviation_no_abs |-> hit_second - ns[i].second]
             ELSE best

\* ScanNote without the `if note.is_claimed { continue; }`
ScanNote_IgnoreClaimed(ns, i, hit_second, bw, best) ==
    LET deviation == Abs(hit_second - ns[i].second)
    IN  IF deviation > bw THEN best
        ELSE IF deviation < best.best_note_deviation
             THEN [best_note |-> i, best_note_deviation |-> deviation,
                   best_note_deviation_no_abs |-> hit_second - ns[i].second]
             ELSE best

\* ScanNote where a note exactly at the bad window is out of reach
ScanNote_StrictWindow(ns, i, hit_second, bw, best) ==
    LET deviation == Abs(hit_second - ns[i].second)
    IN  IF deviation >= bw THEN best
        ELSE IF ns[i].is_claimed THEN best
        ELSE IF deviation < best.best_note_deviation
             THEN [best_note |-> i, best_note_deviation |-> deviation,
                   best_note_deviation_no_abs |-> hit_second - ns[i].second]
             ELSE best

\* the body of `for note in &mut notes`, for the note at index i
ScanNote(ns, i, hit_second, bw, best) ==
    LET deviation == Abs(hit_second - ns[i].second)
    IN  IF deviation > bw THEN best
        ELSE IF ns[i].is_claimed THEN best
        ELSE IF deviation < best.best_note_deviation
             THEN [best_note |-> i, best_note_deviation |-> deviation,
                   best_note_deviation_no_abs |-> hit_second - ns[i].second]
             ELSE best

\* `for note in &mut notes { .. }` over the notes 1..i, in order
RECURSIVE ScanNotes(_, _, _, _)
ScanNotes(ns, i, hit_second, bw) ==
    IF i = 0 THEN NoBestNote
    ELSE ScanNote(ns, i, hit_second, bw, ScanNotes(ns, i - 1, hit_second, bw))

\* `note_seconds.iter().map(|&second| Note { second, is_claimed: false }).collect()`
MakeNotes(seconds) ==
    [i \in 1..Len(seconds) |-> [second |-> seconds[i], is_claimed |-> FALSE]]

\* NumMisses that counts the claimed notes instead
NumMisses_Claimed(ns) == Cardinality({i \in 1..Len(ns) : ns[i].is_claimed})

\* `notes.iter().filter(|n| !n.is_claimed).count()`
NumMisses(ns) == Cardinality({i \in 1..Len(ns) : ~ ns[i].is_claimed})

\* `assert!(crate::util::is_sorted(hit_seconds));` fails
EvaluateAssertFails ==
    /\ pc_eval = "start"
    /\ ~ is_sorted(hit_seconds)
    /\ pc_eval' = "panicked"
    /\ UNCHANGED <<note_seconds, hit_seconds, bad_window, notes, hit_idx, wifescore_sum,
                   assignment, scoring_result>>
    /\ UNCHANGED exceptScorer

\* EvaluateBegin without the assertion
EvaluateBegin_NoAssert ==
    /\ pc_eval = "start"
    /\ notes' = MakeNotes(note_seconds)
    /\ wifescore_sum' = 0
    /\ pc_eval' = "hits"
    /\ UNCHANGED <<note_seconds, hit_seconds, bad_window, hit_idx, assignment, scoring_result>>
    /\ UNCHANGED exceptScorer

\* the assertion holds; `let mut notes = ..; let mut wifescore_sum = 0.0;`
EvaluateBegin ==
    /\ pc_eval = "start"
    /\ is_sorted(hit_seconds)
    /\ notes' = MakeNotes(note_seconds)
    /\ wifescore_sum' = 0
    /\ pc_eval' = "hits"
    /\ UNCHANGED <<note_seconds, hit_seconds, bad_window, hit_idx, assignment, scoring_result>>
    /\ UNCHANGED exceptScorer

\* ProcessHit without `best_note.is_claimed = true`
ProcessHit_NoClaim(ns, sum, hit_second, bw) ==
    LET best == ScanNotes(ns, Len(ns), hit_second, bw)
    IN  IF best.best_note = 0
        THEN [notes |-> ns, wifescore_sum |-> sum, best_note |-> 0]
        ELSE [notes |-> ns,
              wifescore_sum |-> sum + calc_deviation(best.best_note_deviation),
              best_note |-> best.best_note]

\* one iteration of `for hit_second in hit_seconds` on the notes ns and the
\* running sum: the scan, then `None => continue` or
\* `best_note.is_claimed = true; wifescore_sum += W::calc_deviation(..)`
ProcessHit(ns, sum, hit_second, bw) ==
    LET best == ScanNotes(ns, Len(ns), hit_second, bw)
    IN  IF best.best_note = 0
        THEN [notes |-> ns, wifescore_sum |-> sum, best_note |-> 0]
        ELSE [notes |-> [ns EXCEPT ![best.best_note].is_claimed = TRUE],
              wifescore_sum |-> sum + calc_deviation(best.best_note_deviation),
              best_note |-> best.best_note]

\* after the loop: `wifescore_sum += W::MISS_WEIGHT * num_misses as f32;
\* ScoringResult { wifescore_sum, num_judged_notes: notes.len() }`
MakeScoringResult(ns, sum) ==
    [wifescore_sum |-> sum + MISS_WEIGHT * NumMisses(ns), num_judged_notes |-> Len(ns)]

\* an iteration of the hit loop that finds a note
ClaimNote ==
    /\ pc_eval = "hits"
    /\ hit_idx < Len(hit_seconds)
    /\ LET step == ProcessHit(notes, wifescore_sum, hit_seconds[hit_idx + 1], bad_window)
       IN  /\ step.best_note # 0
           /\ notes' = step.notes
           /\ wifescore_sum' = step.wifescore_sum
           /\ assignment' = assignment \cup {<<hit_idx + 1, step.best_note>>}
    /\ hit_idx' = hit_idx + 1
    /\ UNCHANGED <<note_seconds, hit_seconds, bad_window, scoring_result, pc_eval>>
    /\ UNCHANGED exceptScorer

\* an iteration of the hit loop that finds no note
StrayTap ==
    /\ pc_eval = "hits"
    /\ hit_idx < Len(hit_seconds)
    /\ LET step == ProcessHit(notes, wifescore_sum, hit_seconds[hit_idx + 1], bad_window)
       IN  /\ step.best_note = 0
           /\ notes' = step.notes
           /\ wifescore_sum' = step.wifescore_sum
    /\ hit_idx' = hit_idx + 1
    /\ UNCHANGED <<note_seconds, hit_seconds, bad_window, assignment, scoring_result, pc_eval>>
    /\ UNCHANGED exceptScorer

\* the hit loop is over: count the misses and return
EvaluateReturn ==
    /\ pc_eval = "hits"
    /\ hit_idx = Len(hit_seconds)
    /\ scoring_result' = MakeScoringResult(notes, wifescore_sum)
    /\ wifescore_sum' = scoring_result'.wifescore_sum
    /\ pc_eval' = "done"
    /\ UNCHANGED <<note_seconds, hit_seconds, bad_window, notes, hit_idx, assignment>>
    /\ UNCHANGED exceptScorer

\* the whole of evaluate on a lane with sorted hits: the hit loop over the
\* hits 1..k, then the result
RECURSIVE EvaluateHits(_, _, _, _)
EvaluateHits(seconds, hits, k, bw) ==
    IF k = 0 THEN [notes |-> MakeNotes(seconds), wifescore_sum |-> 0, best_note |-> 0]
    ELSE LET prev == EvaluateHits(seconds, hits, k - 1, bw)
         IN  ProcessHit(prev.notes, prev.wifescore_sum, hits[k], bw)

NaiveScorer_evaluate(l, bw) ==
    LET end == EvaluateHits(l.note_seconds, l.hit_seconds, Len(l.hit_seconds), bw)
    IN  MakeScoringResult(end.notes, end.wifescore_sum)

\* MatchingScorer (rescore/matching_scorer.rs), from the spec and the values
\* test_scoring_systems expects: hits and notes are paired one to one within
\* the bad window, the closest pair first
RECURSIVE MatchingScorer_matching(_, _, _, _)
MatchingScorer_matching(seconds, hits, bw, matched) ==
    LET Dev(q) == Abs(hits[q[1]] - seconds[q[2]])
        pairs == {q \in (1..Len(hits)) \X (1..Len(seconds)) :
                    /\ Dev(q) <= bw
                    /\ \A m \in matched : m[1] # q[1] /\ m[2] # q[2]}
    IN  IF pairs = {} THEN matched
        ELSE LET closest == {q \in pairs : \A r \in pairs : Dev(q) <= Dev(r)}
                 first == CHOOSE q \in closest :
                              \A r \in closest : q[2] < r[2] \/ (q[2] = r[2] /\ q[1] <= r[1])
             IN  MatchingScorer_matching(seconds, hits, bw, matched \cup {first})

RECURSIVE SumMatched(_, _, _)
SumMatched(seconds, hits, matched) ==
    IF matched = {} THEN 0
    ELSE LET q == CHOOSE x \in matched : TRUE
         IN  calc_deviation(hits[q[1]] - seconds[q[2]])
             + SumMatched(seconds, hits, matched \ {q})

\* a note without a hit is a miss; a hit without a note is a stray tap, which
\* is judged like a miss and counted as a judged note
MatchingScorer_evaluate(l, bw) ==
    LET matched == MatchingScorer_matching(l.note_seconds, l.hit_seconds, bw, {})
        num_misses == Len(l.note_seconds) - Cardinality(matched)
        num_stray_taps == Len(l.hit_seconds) - Cardinality(matched)
    IN  [wifescore_sum |-> SumMatched(l.note_seconds, l.hit_seconds, matched)
                           + MISS_WEIGHT * (num_misses + num_stray_taps),
         num_judged_notes |-> Len(l.note_seconds) + num_stray_taps]

\* `MatchingScorer::evaluate::<W>(&lane, judge)` on a sorted lane
MatchingEvaluate ==
    /\ pc_eval = "start"
    /\ is_sorted(note_seconds)
    /\ is_sorted(hit_seconds)
    /\ assignment' = MatchingScorer_matching(note_seconds, hit_seconds, bad_window, {})
    /\ scoring_result' =
          MatchingScorer_evaluate([note_seconds |-> note_seconds,
                                   hit_seconds |-> hit_seconds], bad_window)
    /\ pc_eval' = "matched"
    /\ UNCHANGED <<note_seconds, hit_seconds, bad_window, notes, hit_idx, wifescore_sum>>
    /\ UNCHANGED exceptScorer

\* ---- inputs of evaluate ----
MaxSecond == 2
MaxNotes == 3
MaxHits == 3
MaxBadWindow == 1

SeqsUpTo(S, n) == UNION {[1..k -> S] : k \in 0..n}

\* crate::J4.bad_window = 0.18 s, in hundredths of a second
J4_bad_window == 18

\* lanes of test_scoring_systems, in hundredths of a second
TestLanes ==
    {[note_seconds |-> <<100, 200, 300, 400>>, hit_seconds |-> <<100, 200, 300, 400>>],
     [note_seconds |-> <<100, 200, 300, 400>>, hit_seconds |-> <<90, 310, 410>>],
     [note_seconds |-> <<10, 20, 30, 40>>, hit_seconds |-> <<9, 10, 30, 40>>],
     [note_seconds |-> <<5, 10, 15, 20>>, hit_seconds |-> <<>>],
     [note_seconds |-> <<5, 10, 15, 20>>, hit_seconds |-> <<1, 2, 3, 4, 5, 10, 15, 20>>],
     [note_seconds |-> <<5, 10, 15, 20>>, hit_seconds |-> <<1, 2, 3, 4>>]}

InitScorer ==
    /\ \/ /\ note_seconds \in SeqsUpTo(0..MaxSecond, MaxNotes)
          /\ hit_seconds \in SeqsUpTo(0..MaxSecond, MaxHits)
          /\ bad_window \in 0..MaxBadWindow
       \/ \E l \in TestLanes :
             /\ note_seconds = l.note_seconds
             /\ hit_seconds = l.hit_seconds
             /\ bad_window = J4_bad_window
    /\ notes = <<>>
    /\ hit_idx = 0
    /\ wifescore_sum = 0
    /\ assignment = {}
    /\ scoring_result = NoScoringResult
    /\ pc_eval = "start"
    /\ IdleRating
    /\ IdleRescore
    /\ IdleTimeline
    /\ IdleOverall
    /\ IdleJudge
    /\ IdleWifescore
    /\ IdleSubset
    /\ IdleParse

NextScorer ==
    \/ EvaluateAssertFails \/ EvaluateBegin \/ ClaimNote \/ StrayTap \/ EvaluateReturn
    \/ MatchingEvaluate

SpecScorer == InitScorer /\ [][NextScorer]_vars

(***************************************************************************)
(* Claims about NaiveScorer::evaluate                                      *)
(***************************************************************************)

\* C4: the hits are processed in input order; each hit claims the unclaimed
\* note of smallest |hit - note| among those with |hit - note| <= bad_window
\* (a note exactly at the bad window is eligible), the first one in note order
\* when several are equally close; with no such note nothing is claimed.
C4_ClosestUnclaimedNote ==
    [][hit_idx' # hit_idx =>
         LET h == hit_seconds[hit_idx + 1]
             Dev(j) == Abs(h - note_seconds[j])
             Eligible == {j \in 1..Len(note_seconds) :
                            ~ notes[j].is_claimed /\ Dev(j) <= bad_window}
         IN  /\ hit_idx' = hit_idx + 1
             /\ IF Eligible = {}
                THEN notes' = notes /\ assignment' = assignment
                ELSE \E j \in Eligible :
                        /\ \A k \in Eligible : Dev(j) <= Dev(k)
                        /\ \A k \in Eligible : Dev(k) = Dev(j) => j <= k
                        /\ notes' = [notes EXCEPT ![j].is_claimed = TRUE]
                        /\ assignment' = assignment \cup {<<hit_idx + 1, j>>}]_vars

\* a hit between two equally close notes, both exactly at the bad window,
\* has claimed the first
C4_Witness ==
    /\ pc_eval = "done"
    /\ note_seconds = <<0, 2>>
    /\ hit_seconds = <<1>>
    /\ bad_window = 1
    /\ assignment = {<<1, 1>>}

Min(a, b) == IF a <= b THEN a ELSE b

\* C5: at every point of the evaluation the claims form an injective partial
\* matching of hits and notes: no note is claimed by two hits, no hit has
\* claimed two notes, a note is marked claimed exactly when a hit has claimed
\* it, and at most min(number of hits, number of notes) notes are claimed.
C5_InjectivePartialMatching ==
    pc_eval \in {"hits", "done"} =>
        /\ \A p \in assignment : \A q \in assignment :
              (p[1] = q[1] \/ p[2] = q[2]) => p = q
        /\ \A p \in assignment :
              p[1] \in 1..hit_idx /\ p[2] \in 1..Len(note_seconds)
        /\ \A j \in 1..Len(notes) :
              notes[j].is_claimed <=> (\E p \in assignment : p[2] = j)
        /\ Cardinality({j \in 1..Len(notes) : notes[j].is_claimed})
              <= Min(Len(hit_seconds), Len(note_seconds))

\* three hits on two notes at the same time: two claims, one stray tap
C5_Witness ==
    /\ pc_eval = "done"
    /\ Len(hit_seconds) = 3
    /\ Len(note_seconds) = 2
    /\ Cardinality(assignment) = 2

RECURSIVE SumClaimed(_)
SumClaimed(S) ==
    IF S = {} THEN 0
    ELSE LET p == CHOOSE x \in S : TRUE
         IN  calc_deviation(hit_seconds[p[1]] - note_seconds[p[2]]) + SumClaimed(S \ {p})

\* C6: the ScoringResult has num_judged_notes = number of notes of the lane and
\* wifescore_sum = sum of the wife scores of the claimed notes' deviations plus
\* MISS_WEIGHT per unclaimed note; a stray tap changes neither sum nor notes.
C6_ScoringResult ==
    /\ [](pc_eval = "done" =>
            /\ scoring_result.num_judged_notes = Len(note_seconds)
            /\ scoring_result.wifescore_sum =
                  SumClaimed(assignment)
                  + MISS_WEIGHT * (Len(note_seconds) - Cardinality(assignment)))
    /\ [][(hit_idx' # hit_idx /\ assignment' = assignment) =>
            (wifescore_sum' = wifescore_sum /\ notes' = notes)]_vars

\* one note hit exactly, one stray tap, one missed note
C6_Witness ==
    /\ pc_eval = "done"
    /\ note_seconds = <<0, 2>>
    /\ hit_seconds = <<0, 0>>
    /\ bad_window = 1
    /\ scoring_result = [wifescore_sum |-> 262144 - 1048576, num_judged_notes |-> 2]

\* C7 as stated: evaluate never returns a ScoringResult when the note-time
\* sequence or the hit-time sequence is not sorted ascending.
C7_NoResultForUnsortedInput ==
    scoring_result # NoScoringResult =>
        (is_sorted(note_seconds) /\ is_sorted(hit_seconds))

\* C7 (amended): NaiveScorer::evaluate fails with its assertion, before doing
\* anything else, whenever the hit-time sequence is not sorted ascending, and
\* never returns a ScoringResult for unsorted hits.
C7_AssertsSortedHits ==
    /\ [](~ is_sorted(hit_seconds) =>
            /\ pc_eval \in {"start", "panicked"}
            /\ scoring_result = NoScoringResult)
    /\ [][(pc_eval = "start" /\ ~ is_sorted(hit_seconds)) => pc_eval' = "panicked"]_vars

C7_Witness ==
    /\ pc_eval = "panicked"
    /\ hit_seconds = <<2, 1>>
    /\ is_sorted(note_seconds)

\* what test_scoring_systems expects of MatchingScorer on its lanes, as
\* pairs <<hit, note>>, and the number of judged notes
MatchingOfTest(l) ==
    CASE l.hit_seconds = <<100, 200, 300, 400>> ->
            [matched |-> {<<k, k>> : k \in 1..4}, num_judged_notes |-> 4]
      [] l.hit_seconds = <<90, 310, 410>> ->
            [matched |-> {<<1, 1>>, <<2, 3>>, <<3, 4>>}, num_judged_notes |-> 4]
      [] l.hit_seconds = <<9, 10, 30, 40>> ->
            [matched |-> {<<2, 1>>, <<1, 2>>, <<3, 3>>, <<4, 4>>}, num_judged_notes |-> 4]
      [] l.hit_seconds = <<1, 2, 3, 4, 5, 10, 15, 20>> ->
            [matched |-> {<<k + 4, k>> : k \in 1..4}, num_judged_notes |-> 8]
      [] l.hit_seconds = <<1, 2, 3, 4>> ->
            [matched |-> {<<4, 1>>, <<3, 2>>, <<2, 3>>}, num_judged_notes |-> 5]
      [] l.hit_seconds = <<>> ->
            [matched |-> {}, num_judged_notes |-> 4]

\* the model of MatchingScorer gives what the test expects on every lane of
\* the test
MatchingAgreesWithTest ==
    \A l \in TestLanes :
        (pc_eval = "matched" /\ note_seconds = l.note_seconds
         /\ hit_seconds = l.hit_seconds) =>
            /\ assignment = MatchingOfTest(l).matched
            /\ scoring_result.num_judged_notes = MatchingOfTest(l).num_judged_notes

C21_TestLaneWitness ==
    /\ pc_eval = "matched"
    /\ note_seconds = <<100, 200, 300, 400>>
    /\ hit_seconds = note_seconds
    /\ scoring_result = [wifescore_sum |-> 4 * WifeOne, num_judged_notes |-> 4]

\* the lane without its hits after the first k
FirstHits(k) ==
    [note_seconds |-> note_seconds, hit_seconds |-> SubSeq(hit_seconds, 1, k)]

\* C26: a claim is final. A claimed note stays claimed by the same hit, so a
\* later hit, however close to that note, claims another unclaimed note of
\* the window or nothing; once every note is claimed the remaining hits
\* change neither the sum nor the count. Notes [5,10,15,20] with hits
\* [1,2,3,4] (hundredths of a second, J4) get the deviations 4, 8, 12, 16,
\* with or without the further hits [5,10,15,20].
C26_ClaimIsFinal ==
    /\ [][(pc_eval \in {"hits", "done"}) =>
            /\ assignment \subseteq assignment'
            /\ \A p \in assignment' \ assignment :
                  /\ p[1] = hit_idx + 1
                  /\ ~ notes[p[2]].is_claimed
            /\ \A j \in 1..Len(notes) : (notes[j].is_claimed => notes'[j].is_claimed)]_vars
    /\ [](pc_eval = "done" =>
            \A k \in 0..Len(hit_seconds) :
                (\A j \in 1..Len(note_seconds) : \E p \in assignment : p[2] = j /\ p[1] <= k)
                    => scoring_result = NaiveScorer_evaluate(FirstHits(k), bad_window))
    /\ []((/\ pc_eval = "done"
           /\ note_seconds = <<5, 10, 15, 20>>
           /\ Len(hit_seconds) >= 4
           /\ SubSeq(hit_seconds, 1, 4) = <<1, 2, 3, 4>>
           /\ bad_window = J4_bad_window) =>
            /\ assignment = {<<k, k>> : k \in 1..4}
            /\ scoring_result.num_judged_notes = 4
            /\ scoring_result.wifescore_sum =
                  calc_deviation(4) + calc_deviation(8) + calc_deviation(12)
                  + calc_deviation(16))

\* the lane of the test with the four late hits appended: they are stray taps
C26_Witness ==
    /\ pc_eval = "done"
    /\ note_seconds = <<5, 10, 15, 20>>
    /\ hit_seconds = <<1, 2, 3, 4, 5, 10, 15, 20>>
    /\ assignment = {<<k, k>> : k \in 1..4}

(***************************************************************************)
(* structs.rs: Wifescore                                                   *)
(***************************************************************************)
\* `a / b` in f32 for a sum of wife points a and a count b >= 0: x / 0 is an
\* infinity of the sign of x, 0 / 0 is NaN
F32Div(a, b) ==
    IF b # 0 THEN [class |-> "finite", num |-> a, den |-> b]
    ELSE IF a = 0 THEN [class |-> "nan", num |-> 0, den |-> 0]
    ELSE IF a > 0 THEN [class |-> "infinity", num |-> 0, den |-> 0]
    ELSE [class |-> "neg_infinity", num |-> 0, den |-> 0]

\* `proportion.is_nan()`
is_nan(x) == x.class = "nan"

\* `proportion > 1.0` (false for NaN)
GreaterThanOne(x) ==
    \/ x.class = "infinity"
    \/ x.class = "finite" /\ x.num > x.den * WifeOne

None == [some |-> FALSE, returned |-> TRUE]

Some(x) == [some |-> TRUE, returned |-> TRUE, proportion |-> x]

\* Wifescore::from_proportion
from_proportion(proportion) ==
    IF is_nan(proportion) \/ GreaterThanOne(proportion)
    THEN None
    ELSE Some(proportion)

(***************************************************************************)
(* rescore/mod.rs: rescore                                                 *)
(***************************************************************************)
\* `lanes: &[crate::NoteAndHitSeconds; 4]`
NUM_LANES == 4

\* crate::Hit
Miss == [hit |-> "Miss"]

Hit(d) == [hit |-> "Hit", deviation |-> d]

\* ---- inputs of rescore and of Wife::apply ----
MaxLaneSecond == 1
MaxLaneLen == 2
MaxMineHits == 1
MaxHoldDrops == 1
MaxNoteHits == 3
MaxDeviation == 2

LaneInputs ==
    {[note_seconds |-> n, hit_seconds |-> h] :
        n \in SeqsUpTo(0..MaxLaneSecond, MaxLaneLen),
        h \in SeqsUpTo(0..MaxLaneSecond, MaxLaneLen)}

HitInputs == {Miss} \cup {Hit(d) : d \in (-MaxDeviation)..MaxDeviation}

\* what S::evaluate::<W>(lane, judge) returns for the lanes that pass the
\* assertions of rescore, per judge.bad_window
ColumnScoringResults ==
    [bw \in 0..MaxLaneSecond |->
        {NaiveScorer_evaluate(l, bw) :
            l \in {x \in LaneInputs : is_sorted(x.hit_seconds) /\ is_sorted(x.note_seconds)}}]

\* the lanes on which one of
\* `assert!(is_sorted(&lane.hit_seconds)); assert!(is_sorted(&lane.note_seconds));`
\* fails
AssertFailingLanes ==
    {l \in LaneInputs : ~ (is_sorted(l.hit_seconds) /\ is_sorted(l.note_seconds))}

\* the loop body on a lane that fails an assertion
RescoreAssertFails ==
    /\ pc_rescore = "lanes"
    /\ lanes_done < NUM_LANES
    /\ AssertFailingLanes # {}
    /\ pc_rescore' = "panicked"
    /\ UNCHANGED <<column_scoring_result, lanes_done, judge_bad_window, num_mine_hits,
                   num_hold_drops, rescore_wifescore_sum, rescore_num_judged_notes,
                   last_hit, wifescore>>
    /\ UNCHANGED exceptRescore

\* the loop body on a lane that passes the assertions:
\* `let column_scoring_result = S::evaluate::<W>(lane, judge);
\*  wifescore_sum += ..; num_judged_notes += ..;`
RescoreLane ==
    /\ pc_rescore = "lanes"
    /\ lanes_done < NUM_LANES
    /\ column_scoring_result' \in ColumnScoringResults[judge_bad_window]
    /\ rescore_wifescore_sum' =
          rescore_wifescore_sum + column_scoring_result'.wifescore_sum
    /\ rescore_num_judged_notes' =
          rescore_num_judged_notes + column_scoring_result'.num_judged_notes
    /\ lanes_done' = lanes_done + 1
    /\ UNCHANGED <<judge_bad_window, num_mine_hits, num_hold_drops, last_hit, wifescore,
                   pc_rescore>>
    /\ UNCHANGED exceptRescore

\* WithPenalties without the hold drops
WithPenalties_NoHoldDrops(sum, mine_hits, hold_drops) ==
    sum + MINE_HIT_WEIGHT * mine_hits

\* `wifescore_sum += W::MINE_HIT_WEIGHT * num_mine_hits as f32;
\*  wifescore_sum += W::HOLD_DROP_WEIGHT * num_hold_drops as f32;`
WithPenalties(sum, mine_hits, hold_drops) ==
    sum + MINE_HIT_WEIGHT * mine_hits + HOLD_DROP_WEIGHT * hold_drops

\* after the loop: add the penalties (num_mine_hits and num_hold_drops are
\* read here), divide, `from_proportion(..).expect(..)`
RescoreReturn ==
    /\ pc_rescore = "lanes"
    /\ lanes_done = NUM_LANES
    /\ num_mine_hits' \in 0..MaxMineHits
    /\ num_hold_drops' \in 0..MaxHoldDrops
    /\ rescore_wifescore_sum' =
          WithPenalties(rescore_wifescore_sum, num_mine_hits', num_hold_drops')
    /\ LET made == from_proportion(F32Div(rescore_wifescore_sum', rescore_num_judged_notes))
       IN  IF made.some
           THEN wifescore' = made /\ pc_rescore' = "done"
           ELSE wifescore' = wifescore /\ pc_rescore' = "panicked"
    /\ UNCHANGED <<column_scoring_result, lanes_done, judge_bad_window,
                   rescore_num_judged_notes, last_hit>>
    /\ UNCHANGED exceptRescore

(***************************************************************************)
(* wife/mod.rs: Wife::calc and Wife::apply (rescore_from_note_hits)        *)
(***************************************************************************)
\* Wife::calc
calc(h) == IF h.hit = "Hit" THEN calc_deviation(h.deviation) ELSE MISS_WEIGHT

\* one iteration of `for hit in note_hits`
ApplyHit ==
    /\ pc_rescore = "apply"
    /\ rescore_num_judged_notes < MaxNoteHits
    /\ \E h \in HitInputs :
          /\ last_hit' = h
          /\ rescore_wifescore_sum' = rescore_wifescore_sum + calc(h)
    /\ rescore_num_judged_notes' = rescore_num_judged_notes + 1
    /\ UNCHANGED <<column_scoring_result, lanes_done, judge_bad_window, num_mine_hits,
                   num_hold_drops, wifescore, pc_rescore>>
    /\ UNCHANGED exceptRescore

\* the iterator is exhausted: add the penalties (num_mine_hits and
\* num_hold_drops are read here), divide, from_proportion
ApplyReturn ==
    /\ pc_rescore = "apply"
    /\ num_mine_hits' \in 0..MaxMineHits
    /\ num_hold_drops' \in 0..MaxHoldDrops
    /\ rescore_wifescore_sum' =
          WithPenalties(rescore_wifescore_sum, num_mine_hits', num_hold_drops')
    /\ wifescore' = from_proportion(F32Div(rescore_wifescore_sum', rescore_num_judged_notes))
    /\ pc_rescore' = "done"
    /\ UNCHANGED <<column_scoring_result, lanes_done, judge_bad_window,
                   rescore_num_judged_notes, last_hit>>
    /\ UNCHANGED exceptRescore

InitRescore ==
    /\ column_scoring_result = NoScoringResult
    /\ lanes_done = 0
    /\ judge_bad_window \in 0..MaxLaneSecond
    /\ num_mine_hits = 0
    /\ num_hold_drops = 0
    /\ rescore_wifescore_sum = 0
    /\ rescore_num_judged_notes = 0
    /\ last_hit = NoHit
    /\ wifescore = NotReturned
    /\ pc_rescore \in {"lanes", "apply"}
    /\ IdleRating
    /\ IdleScorer
    /\ IdleTimeline
    /\ IdleOverall
    /\ IdleJudge
    /\ IdleWifescore
    /\ IdleSubset
    /\ IdleParse

NextRescore ==
    RescoreAssertFails \/ RescoreLane \/ RescoreReturn \/ ApplyHit \/ ApplyReturn

SpecRescore == InitRescore /\ [][NextRescore]_vars

(***************************************************************************)
(* Claims about rescore and Wife::apply                                    *)
(***************************************************************************)

\* C8: rescore evaluates the scoring system on each of the four lanes and
\* adds the wifescore_sum and num_judged_notes of the lane's result to its
\* totals; it returns only after the fourth lane, and then the
\* Wifescore whose proportion is (lane total + MINE_HIT_WEIGHT x num_mine_hits
\* + HOLD_DROP_WEIGHT x num_hold_drops) / total judged notes; the penalties
\* leave the divisor unchanged.
C8_RescoreTotal ==
    [][pc_rescore = "lanes" =>
         /\ (lanes_done' # lanes_done =>
                /\ lanes_done < 4
                /\ lanes_done' = lanes_done + 1
                /\ column_scoring_result' \in ColumnScoringResults[judge_bad_window]
                /\ rescore_wifescore_sum' =
                      rescore_wifescore_sum + column_scoring_result'.wifescore_sum
                /\ rescore_num_judged_notes' =
                      rescore_num_judged_notes + column_scoring_result'.num_judged_notes)
         /\ (pc_rescore' = "done" =>
                /\ lanes_done = 4
                /\ rescore_num_judged_notes' = rescore_num_judged_notes
                /\ wifescore'.some
                /\ wifescore'.proportion =
                      F32Div(rescore_wifescore_sum
                                + (-4 * 262144) * num_mine_hits'
                                + (-3 * 262144) * num_hold_drops',
                             rescore_num_judged_notes))]_vars

\* two notes hit exactly, one mine hit and one hold drop: (1 + 1 - 4 - 3) / 2
C8_Witness ==
    /\ pc_rescore = "done"
    /\ lanes_done = 4
    /\ num_mine_hits = 1
    /\ num_hold_drops = 1
    /\ wifescore = Some([class |-> "finite", num |-> -5 * 262144, den |-> 2])

\* C9: whenever the total number of judged notes is zero no Wifescore value is
\* produced, for every num_mine_hits and num_hold_drops: rescore fails and
\* Wife::apply returns None.
C9_NoWifescoreWithoutNotes ==
    rescore_num_judged_notes = 0 => ~ wifescore.some

(***************************************************************************)
(* lib.rs: SkillTimeline::calculate                                        *)
(***************************************************************************)
\* the rating functions are applied to slices of f32; the model keeps the
\* application itself, with the slice that was passed
skillset_calc_function(ssrs) == [calc_rating_of |-> ssrs]

\* Skillsets7::calc_player_overall: with_overall(calculate_player_overall(..))
overall_calc_function(skillsets7) ==
    [overall |-> [calc_rating_of |-> skillsets7], skillsets |-> skillsets7]

\* `&rating_vectors[j][..i]`
Slice(v, i) == SubSeq(v, 1, i)

\* a slot of the collected Vec that no closure call has filled yet
NoChange == <<NoDay>>

\* the loop body of `for (day_id, ssr) in iterator`
TimelinePush ==
    /\ pc_timeline = "iterate"
    /\ score_idx < Len(scores)
    /\ LET day_id == scores[score_idx + 1].day_id
           ssr == scores[score_idx + 1].ssr
       IN  /\ rating_vectors' =
                 [j \in 1..NUM_SKILLSETS |-> Append(rating_vectors[j], ssr[j])]
           /\ day_indices' =
                 IF prev_day_id # NoDay /\ prev_day_id # day_id
                 THEN Append(day_indices, <<prev_day_id, Len(rating_vectors'[1])>>)
                 ELSE day_indices
           /\ prev_day_id' = day_id
    /\ score_idx' = score_idx + 1
    /\ UNCHANGED <<scores, parallel, num_workers, in_flight, collected, out_of_order,
                   changes, pc_timeline>>
    /\ UNCHANGED exceptTimeline

\* TimelineLastGroup without the push after the loop
PushLastGroup_Dropped(indices, prev, len) == indices

\* `if let Some(prev_day_id) = prev_day_id { day_indices.push((prev_day_id, len)) }`
PushLastGroup(indices, prev, len) ==
    IF prev # NoDay THEN Append(indices, <<prev, len>>) ELSE indices

\* after the loop: the last group is pushed, and `par_iter_maybe(day_indices)`
\* starts with one empty slot per element of day_indices
TimelineLastGroup ==
    /\ pc_timeline = "iterate"
    /\ score_idx = Len(scores)
    /\ day_indices' = PushLastGroup(day_indices, prev_day_id, Len(rating_vectors[1]))
    /\ collected' = [k \in 1..Len(day_indices') |-> NoChange]
    /\ pc_timeline' = "map"
    /\ UNCHANGED <<scores, score_idx, rating_vectors, prev_day_id, parallel, num_workers,
                   in_flight, out_of_order, changes>>
    /\ UNCHANGED exceptTimeline

\* the items of day_indices whose closure call has not started
Pending == {k \in 1..Len(day_indices) : collected[k] = NoChange /\ k \notin in_flight}

\* par_iter_maybe: with feature "parallel" (`into_par_iter`) an idle worker
\* takes any pending item; without it (`into_iter`) the single thread takes
\* the items in order
TimelineMapStart ==
    /\ pc_timeline = "map"
    /\ Cardinality(in_flight) < num_workers
    /\ \E k \in Pending :
          /\ parallel \/ \A m \in Pending : k <= m
          /\ in_flight' = in_flight \cup {k}
    /\ UNCHANGED <<scores, score_idx, rating_vectors, day_indices, prev_day_id, parallel,
                   num_workers, collected, out_of_order, changes, pc_timeline>>
    /\ UNCHANGED exceptTimeline

\* the closure `|(day_id, i)| (day_id, overall_calc_function(&Skillsets7 { .. }))`
MapClosure(item) ==
    LET day_id == item[1]
        i == item[2]
    IN  <<day_id,
          overall_calc_function(
             [j \in 1..NUM_SKILLSETS |->
                 skillset_calc_function(Slice(rating_vectors[j], i))])>>

\* Collect that appends the results in the order in which the calls finish
Collect_CompletionOrder(slots, k, change) ==
    LET first == CHOOSE m \in 1..Len(slots) :
                    slots[m] = NoChange /\ \A n \in 1..(m - 1) : slots[n] # NoChange
    IN  [slots EXCEPT ![first] = change]

\* `.collect()` into a Vec: the result of the k-th item is the k-th element
Collect(slots, k, change) == [slots EXCEPT ![k] = change]

\* a running closure call returns and its result is collected
TimelineMap ==
    /\ pc_timeline = "map"
    /\ \E k \in in_flight :
          /\ collected' = Collect(collected, k, MapClosure(day_indices[k]))
          /\ in_flight' = in_flight \ {k}
          /\ out_of_order' =
                (out_of_order \/ \E m \in 1..(k - 1) : collected[m] = NoChange)
    /\ UNCHANGED <<scores, score_idx, rating_vectors, day_indices, prev_day_id, parallel,
                   num_workers, changes, pc_timeline>>
    /\ UNCHANGED exceptTimeline

\* every item is collected: `Self { changes }`
TimelineReturn ==
    /\ pc_timeline = "map"
    /\ \A k \in 1..Len(collected) : collected[k] # NoChange
    /\ changes' = collected
    /\ pc_timeline' = "done"
    /\ UNCHANGED <<scores, score_idx, rating_vectors, day_indices, prev_day_id, parallel,
                   num_workers, in_flight, collected, out_of_order>>
    /\ UNCHANGED exceptTimeline

\* ---- inputs of SkillTimeline::calculate ----
MaxScores == 5
MaxDayId == 2
MaxWorkers == 2

\* the Skillsets7 of the k-th input: seven values found in no other input
SsrInput(k) == [j \in 1..NUM_SKILLSETS |-> 10 * k + j]

\* the inputs: every sequence of group keys, the k-th with SsrInput(k)
ScoreInputs ==
    {[m \in 1..Len(d) |-> [day_id |-> d[m], ssr |-> SsrInput(m)]] :
        d \in SeqsUpTo(1..MaxDayId, MaxScores)}

InitTimeline ==
    /\ scores \in ScoreInputs
    /\ score_idx = 0
    /\ rating_vectors = [j \in 1..NUM_SKILLSETS |-> <<>>]
    /\ day_indices = <<>>
    /\ prev_day_id = NoDay
    /\ parallel \in BOOLEAN
    /\ num_workers \in (IF parallel THEN 1..MaxWorkers ELSE {1})
    /\ in_flight = {}
    /\ collected = <<>>
    /\ out_of_order = FALSE
    /\ changes = <<>>
    /\ pc_timeline = "iterate"
    /\ IdleRating
    /\ IdleScorer
    /\ IdleRescore
    /\ IdleOverall
    /\ IdleJudge
    /\ IdleWifescore
    /\ IdleSubset
    /\ IdleParse

NextTimeline ==
    TimelinePush \/ TimelineLastGroup \/ TimelineMapStart \/ TimelineMap \/ TimelineReturn

SpecTimeline == InitTimeline /\ [][NextTimeline]_vars

(***************************************************************************)
(* Claims about SkillTimeline::calculate                                   *)
(***************************************************************************)
\* the positions at which a group (a maximal run of equal day_id) ends
GroupEnds ==
    {i \in 1..Len(scores) : i = Len(scores) \/ scores[i].day_id # scores[i + 1].day_id}

\* the position of the last score of the k-th group
GroupEnd(k) == CHOOSE i \in GroupEnds : Cardinality({e \in GroupEnds : e <= i}) = k

\* C10: the snapshot of the k-th group is computed from exactly the scores of
\* the groups 1..k: each of the seven slices passed to the rating function
\* holds the scores up to the last score of group k and no later score.
C10_SnapshotUsesGroupsUpToK ==
    pc_timeline = "done" =>
        \A k \in 1..Len(changes) :
            /\ k <= Cardinality(GroupEnds)
            /\ \A j \in 1..NUM_SKILLSETS :
                  changes[k][2].skillsets[j].calc_rating_of
                     = [m \in 1..GroupEnd(k) |-> scores[m].ssr[j]]

\* C11: the timeline has exactly one entry per maximal run of inputs with
\* equal group key, in input order and with the run's key (so an empty input
\* gives an empty timeline), and the rating of the last entry is computed
\* over all inputs.
C11_OneEntryPerGroup ==
    pc_timeline = "done" =>
        /\ Len(changes) = Cardinality(GroupEnds)
        /\ \A k \in 1..Len(changes) : changes[k][1] = scores[GroupEnd(k)].day_id
        /\ (scores = <<>> => changes = <<>>)
        /\ (changes # <<>> =>
               \A j \in 1..NUM_SKILLSETS :
                  changes[Len(changes)][2].skillsets[j].calc_rating_of
                     = [m \in 1..Len(scores) |-> scores[m].ssr[j]])

\* three inputs of group 1 followed by two of group 2: two entries
C11_Witness ==
    /\ pc_timeline = "done"
    /\ [m \in 1..Len(scores) |-> scores[m].day_id] = <<1, 1, 1, 2, 2>>
    /\ Len(changes) = 2
    /\ changes[2][1] = 2
    /\ Len(changes[2][2].skillsets[1].calc_rating_of) = 5

\* C12: the returned timeline is the one the sequential map gives, entry k
\* being the closure applied to the k-th element of day_indices, whether or
\* not the calls run on parallel workers, in whatever order they finish and
\* for every number of workers.
C12_SameTimelineInParallel ==
    pc_timeline = "done" =>
        changes = [k \in 1..Len(day_indices) |-> MapClosure(day_indices[k])]

\* a parallel run with two workers in which a call finished before an earlier
\* item's call
C12_Witness ==
    /\ pc_timeline = "done"
    /\ parallel
    /\ num_workers = 2
    /\ out_of_order
    /\ Len(changes) >= 2

(***************************************************************************)
(* skillsets.rs: Skillsets7::calc_ssr_overall and calc_player_overall      *)
(* (the same expressions as ChartSkillsets::overall and                    *)
(* UserSkillsets::overall in structs/skillsets.rs)                         *)
(*                                                                         *)
(* An f32 here is a record: nan, or whole + milli / 1000 rating units.     *)
(***************************************************************************)
NaN == [nan |-> TRUE, whole |-> 0, milli |-> 0]

F32(units) == [nan |-> FALSE, whole |-> units, milli |-> 0]

\* the f32 returned by calc_rating
AsF32(res) == [nan |-> FALSE, whole |-> res.whole, milli |-> res.milli]

\* `a < b` on f32: false when either side is NaN
f32_lt(a, b) ==
    /\ ~ a.nan
    /\ ~ b.nan
    /\ \/ a.whole < b.whole
       \/ a.whole = b.whole /\ a.milli < b.milli

\* f32::max: the other operand when one is NaN
f32_max(a, b) ==
    IF a.nan THEN b
    ELSE IF b.nan THEN a
    ELSE IF f32_lt(a, b) THEN b ELSE a

\* Skillsets7::with_overall
with_overall(self, overall) == [overall |-> overall, skillsets |-> self]

\* `self.stream.max(self.jumpstream).max(self.handstream) .. .max(self.technical)`
max_skillset(self) ==
    f32_max(f32_max(f32_max(f32_max(f32_max(f32_max(self[1], self[2]), self[3]),
                                    self[4]), self[5]), self[6]), self[7])

\* calc_ssr_overall without the max with the largest skillset
calc_ssr_overall_NoMax(self, aggregated_skillsets) ==
    with_overall(self, aggregated_skillsets)

\* Skillsets7::calc_ssr_overall, given what calculate_score_overall returned
calc_ssr_overall(self, aggregated_skillsets) ==
    with_overall(self, f32_max(aggregated_skillsets, max_skillset(self)))

\* calc_player_overall that takes the max with the largest skillset
calc_player_overall_WithMax(self, overall) ==
    with_overall(self, f32_max(overall, max_skillset(self)))

\* Skillsets7::calc_player_overall, given what calculate_player_overall returned
calc_player_overall(self, overall) == with_overall(self, overall)

\* rating_calc.rs, test_everything: the input vectors and the values the test
\* asserts for calculate_score_overall, calculate_player_skillset_rating,
\* calculate_player_skillset_rating_pre_070 and calculate_player_overall,
\* in rating units (21.0 is 4200 units, 25.2747 is 5054.94 units)
test_values ==
    << [numbers |-> <<4200, 4800, 4600, 2800, 3400, 5000, 4800>>,
        s_overall |-> [whole |-> 5054, milli |-> 940],
        p_ss |-> [whole |-> 4389, milli |-> 0],
        p_ss_old |-> [whole |-> 4347, milli |-> 200],
        p_overall |-> [whole |-> 4702, milli |-> 500]],
       [numbers |-> <<5000, 4600, 6000, 6000, 3400, 5000, 4800>>,
        s_overall |-> [whole |-> 6102, milli |-> 780],
        p_ss |-> [whole |-> 5140, milli |-> 800],
        p_ss_old |-> [whole |-> 5091, milli |-> 840],
        p_overall |-> [whole |-> 5508, milli |-> 0]],
       [numbers |-> <<5200, 4600, 5800, 3000, 3800, 4400, 5000>>,
        s_overall |-> [whole |-> 5725, milli |-> 380],
        p_ss |-> [whole |-> 4802, milli |-> 700],
        p_ss_old |-> [whole |-> 4756, milli |-> 960],
        p_overall |-> [whole |-> 5145, milli |-> 750]],
       [numbers |-> <<4600, 4800, 4800, 4600, 5000, 4800, 4600>>,
        s_overall |-> [whole |-> 5092, milli |-> 680],
        p_ss |-> [whole |-> 4536, milli |-> 0],
        p_ss_old |-> [whole |-> 4492, milli |-> 800],
        p_overall |-> [whole |-> 4860, milli |-> 0]],
       [numbers |-> <<2000, 20000, 8400, 13800, 600, 17600, 10000>>,
        s_overall |-> [whole |-> 20364, milli |-> 60],
        p_ss |-> [whole |-> 17018, milli |-> 400],
        p_ss_old |-> [whole |-> 16856, milli |-> 320],
        p_overall |-> [whole |-> 18234, milli |-> 0]] >>

\* the threshold of is_rating_okay behind a value calc_rating returned: the
\* loop stopped two final resolutions below value / final_multiplier
RootOf(value, multiplier) == (1000 * value.whole + value.milli) \div multiplier - 2

\* is_rating_okay drops every ssr <= rating (`.filter(|&x| x > 0.0)`) and
\* every NaN, so with only 0.0 and NaN every candidate is okay
NoCandidateFails == -1

\* ---- inputs of calc_ssr_overall and calc_player_overall ----
\* the vectors of the test table, with the thresholds the asserted values
\* give, and every vector of 0.0 and NaN
OverallInputs ==
    {[self |-> [j \in 1..NUM_SKILLSETS |-> F32(test_values[t].numbers[j])],
      fn |-> "calc_ssr_overall",
      root |-> RootOf(test_values[t].s_overall, 1110)] : t \in 1..Len(test_values)}
    \cup
    {[self |-> [j \in 1..NUM_SKILLSETS |-> F32(test_values[t].numbers[j])],
      fn |-> "calc_player_overall",
      root |-> RootOf(test_values[t].p_overall, 1125)] : t \in 1..Len(test_values)}
    \cup
    {[self |-> v, fn |-> f, root |-> NoCandidateFails] :
        v \in [1..NUM_SKILLSETS -> {F32(0), NaN}],
        f \in {"calc_ssr_overall", "calc_player_overall"}}

\* calc_ssr_overall after calculate_score_overall has returned
SsrOverallReturn ==
    /\ pc_overall = "aggregate"
    /\ overall_fn = "calc_ssr_overall"
    /\ pc_rating = "done"
    /\ skillsets8' = calc_ssr_overall(skillsets, AsF32(result))
    /\ pc_overall' = "done"
    /\ UNCHANGED <<skillsets, overall_fn>>
    /\ UNCHANGED <<ratingVars, exceptOverall>>

\* calc_player_overall after calculate_player_overall has returned
PlayerOverallReturn ==
    /\ pc_overall = "aggregate"
    /\ overall_fn = "calc_player_overall"
    /\ pc_rating = "done"
    /\ skillsets8' = calc_player_overall(skillsets, AsF32(result))
    /\ pc_overall' = "done"
    /\ UNCHANGED <<skillsets, overall_fn>>
    /\ UNCHANGED <<ratingVars, exceptOverall>>

\* the call of calculate_score_overall (1.11) or calculate_player_overall (1.125)
InitOverall ==
    /\ \E input \in OverallInputs :
          /\ skillsets = input.self
          /\ overall_fn = input.fn
          /\ root = input.root
    /\ final_multiplier = (IF overall_fn = "calc_ssr_overall" THEN 1110 ELSE 1125)
    /\ skillsets8 = NoSkillsets8
    /\ pc_overall = "aggregate"
    /\ rating = 0
    /\ resolution = InitialResolution
    /\ iters = 0
    /\ incs = 0
    /\ result = NoResult
    /\ pc_rating = "while"
    /\ IdleScorer
    /\ IdleRescore
    /\ IdleTimeline
    /\ IdleJudge
    /\ IdleWifescore
    /\ IdleSubset
    /\ IdleParse

NextOverall ==
    EnterBody \/ Increment \/ Halve \/ Return \/ SsrOverallReturn \/ PlayerOverallReturn

SpecOverall == InitOverall /\ [][NextOverall]_vars

(***************************************************************************)
(* Claims about the overall values                                         *)
(***************************************************************************)
\* the largest of the seven values that is not NaN, NaN when all are
Largest(self) ==
    LET numbers == {self[j] : j \in {k \in 1..NUM_SKILLSETS : ~ self[k].nan}}
    IN  IF numbers = {} THEN NaN
        ELSE CHOOSE v \in numbers : \A w \in numbers : ~ f32_lt(v, w)

\* C13: the overall of calc_ssr_overall is the larger of what
\* calculate_score_overall returned and the largest of the seven values, so
\* no skillset is above it, and the seven skillsets are carried over.
C13_SsrOverallIsMax ==
    (pc_overall = "done" /\ overall_fn = "calc_ssr_overall") =>
        LET aggregate == AsF32(result)
            largest == Largest(skillsets)
        IN  /\ skillsets8.overall =
                  (IF largest.nan \/ f32_lt(largest, aggregate) THEN aggregate ELSE largest)
            /\ \A j \in 1..NUM_SKILLSETS : ~ f32_lt(skillsets8.overall, skillsets[j])
            /\ skillsets8.skillsets = skillsets

\* the third vector of the test table: the aggregate is 28.6269, below the
\* handstream value 29.0, and the overall is 29.0
C13_Witness ==
    /\ pc_overall = "done"
    /\ overall_fn = "calc_ssr_overall"
    /\ skillsets = [j \in 1..NUM_SKILLSETS |-> F32(test_values[3].numbers[j])]
    /\ result = test_values[3].s_overall
    /\ skillsets8.overall = F32(5800)

\* C14 as stated: the overall of calc_player_overall is not below any of the
\* seven skillset ratings.
C14_PlayerOverallNotBelowLargest ==
    (pc_overall = "done" /\ overall_fn = "calc_player_overall") =>
        \A j \in 1..NUM_SKILLSETS : ~ f32_lt(skillsets8.overall, skillsets[j])

\* C14: the overall of calc_player_overall is what calculate_player_overall
\* returned (calc_rating with multiplier 1.125), whether or not a skillset is
\* above it; the seven skillsets are carried over.
C14_PlayerOverallIsAggregate ==
    (pc_overall = "done" /\ overall_fn = "calc_player_overall") =>
        /\ final_multiplier = 1125
        /\ skillsets8.overall = AsF32(result)
        /\ skillsets8.skillsets = skillsets

\* the first vector of the test table: the overall is 23.5125, the chordjack
\* rating is 25.0
C14_Witness ==
    /\ pc_overall = "done"
    /\ overall_fn = "calc_player_overall"
    /\ skillsets = [j \in 1..NUM_SKILLSETS |-> F32(test_values[1].numbers[j])]
    /\ skillsets8.overall = AsF32(test_values[1].p_overall)
    /\ f32_lt(skillsets8.overall, skillsets[6])

(***************************************************************************)
(* judge.rs: Judge, J1..J9; structs.rs: Hit; wife/mod.rs: Wife::calc       *)
(*                                                                         *)
(* Windows and deviations are in microseconds, timing_scale in hundredths. *)
(***************************************************************************)
J1 ==
    [name |-> "J1", marvelous_window |-> 33750, perfect_window |-> 67500, great_window |-> 135000,
     good_window |-> 202500, bad_window |-> 270000, hold_window |-> 375000, roll_window |-> 750000,
     mine_window |-> 75000, timing_scale |-> 150]

J2 ==
    [name |-> "J2", marvelous_window |-> 29925, perfect_window |-> 59850, great_window |-> 119700,
     good_window |-> 179550, bad_window |-> 239400, hold_window |-> 332500, roll_window |-> 665000,
     mine_window |-> 75000, timing_scale |-> 133]

J3 ==
    [name |-> "J3", marvelous_window |-> 26100, perfect_window |-> 52200, great_window |-> 104400,
     good_window |-> 156600, bad_window |-> 208800, hold_window |-> 290000, roll_window |-> 580000,
     mine_window |-> 75000, timing_scale |-> 116]

J4 ==
    [name |-> "J4", marvelous_window |-> 22500, perfect_window |-> 45000, great_window |-> 90000,
     good_window |-> 135000, bad_window |-> 180000, hold_window |-> 250000, roll_window |-> 500000,
     mine_window |-> 75000, timing_scale |-> 100]

J5 ==
    [name |-> "J5", marvelous_window |-> 18900, perfect_window |-> 37800, great_window |-> 75600,
     good_window |-> 113400, bad_window |-> 180000, hold_window |-> 210000, roll_window |-> 420000,
     mine_window |-> 75000, timing_scale |-> 84]

J6 ==
    [name |-> "J6", marvelous_window |-> 14850, perfect_window |-> 29700, great_window |-> 59400,
     good_window |-> 89100, bad_window |-> 180000, hold_window |-> 165000, roll_window |-> 330000,
     mine_window |-> 75000, timing_scale |-> 66]

J7 ==
    [name |-> "J7", marvelous_window |-> 11250, perfect_window |-> 22500, great_window |-> 45000,
     good_window |-> 67500, bad_window |-> 180000, hold_window |-> 125000, roll_window |-> 250000,
     mine_window |-> 75000, timing_scale |-> 50]

J8 ==
    [name |-> "J8", marvelous_window |-> 7425, perfect_window |-> 14850, great_window |-> 29700,
     good_window |-> 44550, bad_window |-> 180000, hold_window |-> 82500, roll_window |-> 250000,
     mine_window |-> 75000, timing_scale |-> 33]

J9 ==
    [name |-> "J9", marvelous_window |-> 4500, perfect_window |-> 9000, great_window |-> 18000,
     good_window |-> 27000, bad_window |-> 180000, hold_window |-> 50000, roll_window |-> 250000,
     mine_window |-> 75000, timing_scale |-> 20]

\* the judges a caller can have: timing_scale is pub(crate), so no Judge can
\* be built outside the crate
Judges == {J1, J2, J3, J4, J5, J6, J7, J8, J9}

\* Judge::classify with `<` in place of `<=`
classify_Strict(self, d) ==
    LET a == Abs(d)
    IN  IF a < self.marvelous_window THEN "Marvelous"
        ELSE IF a < self.perfect_window THEN "Perfect"
        ELSE IF a < self.great_window THEN "Great"
        ELSE IF a < self.good_window THEN "Good"
        ELSE IF a < self.bad_window THEN "Bad"
        ELSE "Miss"

\* Judge::classify without `deviation.abs()`
classify_NoAbs(self, d) ==
    IF d <= self.marvelous_window THEN "Marvelous"
    ELSE IF d <= self.perfect_window THEN "Perfect"
    ELSE IF d <= self.great_window THEN "Great"
    ELSE IF d <= self.good_window THEN "Good"
    ELSE IF d <= self.bad_window THEN "Bad"
    ELSE "Miss"

\* Judge::classify
classify(self, d) ==
    LET a == Abs(d)
    IN  IF a <= self.marvelous_window THEN "Marvelous"
        ELSE IF a <= self.perfect_window THEN "Perfect"
        ELSE IF a <= self.great_window THEN "Great"
        ELSE IF a <= self.good_window THEN "Good"
        ELSE IF a <= self.bad_window THEN "Bad"
        ELSE "Miss"

\* a Rust bool as the strings the variables cb and hit_cb hold
Bool(b) == IF b THEN "true" ELSE "false"

\* Judge::is_cb: `deviation <= self.great_window`
is_cb(self, d) == d <= self.great_window

\* Hit::is_cb
Hit_is_cb(h, self) == IF h.hit = "Hit" THEN is_cb(self, h.deviation) ELSE FALSE

\* Wife2::calc_deviation: `95.0 * judge.timing_scale` ms, in microseconds
avedeviation(self) == 950 * self.timing_scale

\* ---- inputs of the Judge functions ----
DeviationMargin == 1
MaxAveDeviations == 2

\* deviations at, just inside and just outside every window of the judge, of
\* both signs, and the multiples of avedeviation (on which the fixed-point
\* Wife2 curve is exact)
DeviationInputs(self) ==
    {sign * (w + m) :
        sign \in {-1, 1},
        w \in {0, self.marvelous_window, self.perfect_window, self.great_window,
               self.good_window, self.bad_window},
        m \in (-DeviationMargin)..DeviationMargin}
    \cup {sign * k * avedeviation(self) : sign \in {-1, 1}, k \in 0..MaxAveDeviations}

\* `judge.classify(deviation)`
JudgeClassify ==
    /\ pc_judge = "classify"
    /\ judgement' = classify(judge, tap_deviation)
    /\ pc_judge' = "classify_other"
    /\ UNCHANGED <<judge, tap_deviation, other_deviation, other_judgement, cb, hit, hit_cb,
                   wife_score>>
    /\ UNCHANGED exceptJudge

\* `judge.classify(other_deviation)`
JudgeClassifyOther ==
    /\ pc_judge = "classify_other"
    /\ other_judgement' = classify(judge, other_deviation)
    /\ pc_judge' = "is_cb"
    /\ UNCHANGED <<judge, tap_deviation, other_deviation, judgement, cb, hit, hit_cb,
                   wife_score>>
    /\ UNCHANGED exceptJudge

\* `judge.is_cb(deviation)`
JudgeIsCb ==
    /\ pc_judge = "is_cb"
    /\ cb' = Bool(is_cb(judge, tap_deviation))
    /\ pc_judge' = "hit_is_cb"
    /\ UNCHANGED <<judge, tap_deviation, other_deviation, judgement, other_judgement, hit,
                   hit_cb, wife_score>>
    /\ UNCHANGED exceptJudge

\* `hit.is_cb(judge)` for Hit::Hit { deviation } or Hit::Miss
HitIsCb ==
    /\ pc_judge = "hit_is_cb"
    /\ hit' \in {Hit(tap_deviation), Miss}
    /\ hit_cb' = Bool(Hit_is_cb(hit', judge))
    /\ pc_judge' = "calc"
    /\ UNCHANGED <<judge, tap_deviation, other_deviation, judgement, other_judgement, cb,
                   wife_score>>
    /\ UNCHANGED exceptJudge

\* WifeCalc with MISS_WEIGHT for a hit at or beyond the bad window
WifeCalc_MissBeyondBadWindow ==
    /\ pc_judge = "calc"
    /\ hit.hit = "Hit" => hit.deviation % avedeviation(judge) = 0
    /\ wife_score' =
          (IF hit.hit = "Hit" /\ Abs(hit.deviation) < judge.bad_window
           THEN calc(Hit(hit.deviation \div avedeviation(judge)))
           ELSE MISS_WEIGHT)
    /\ pc_judge' = "done"
    /\ UNCHANGED <<judge, tap_deviation, other_deviation, judgement, other_judgement, cb,
                   hit, hit_cb>>
    /\ UNCHANGED exceptJudge

\* `Wife2::calc(hit, judge)`, for a Miss and for the deviations that are a
\* whole number of avedeviations
WifeCalc ==
    /\ pc_judge = "calc"
    /\ hit.hit = "Hit" => hit.deviation % avedeviation(judge) = 0
    /\ wife_score' =
          calc(IF hit.hit = "Hit" THEN Hit(hit.deviation \div avedeviation(judge)) ELSE Miss)
    /\ pc_judge' = "done"
    /\ UNCHANGED <<judge, tap_deviation, other_deviation, judgement, other_judgement, cb,
                   hit, hit_cb>>
    /\ UNCHANGED exceptJudge

InitJudge ==
    /\ judge \in Judges
    /\ tap_deviation \in DeviationInputs(judge)
    /\ other_deviation \in DeviationInputs(judge)
    /\ judgement = "none"
    /\ other_judgement = "none"
    /\ cb = "none"
    /\ hit = NoHit
    /\ hit_cb = "none"
    /\ wife_score = NoScore
    /\ pc_judge = "classify"
    /\ IdleRating
    /\ IdleScorer
    /\ IdleRescore
    /\ IdleTimeline
    /\ IdleOverall
    /\ IdleWifescore
    /\ IdleSubset
    /\ IdleParse

NextJudge == JudgeClassify \/ JudgeClassifyOther \/ JudgeIsCb \/ HitIsCb \/ WifeCalc

SpecJudge == InitJudge /\ [][NextJudge]_vars

(***************************************************************************)
(* Claims about Judge, Hit::is_cb and Wife::calc                           *)
(***************************************************************************)
TapJudgements == <<"Marvelous", "Perfect", "Great", "Good", "Bad", "Miss">>

\* the five windows of a judge, in the order of TapJudgements
Windows(self) ==
    <<self.marvelous_window, self.perfect_window, self.great_window, self.good_window,
      self.bad_window>>

\* the position of a judgement in TapJudgements
Severity(j) == CHOOSE i \in 1..6 : TapJudgements[i] = j

\* C15: classify returns the first of marvelous, perfect, great, good, bad
\* whose window is >= |deviation| (so a deviation equal to a window bound gets
\* that window's judgement), and Miss when |deviation| is above the bad
\* window, for deviations of both signs.
C15_ClassifyFirstWindow ==
    judgement # "none" =>
        LET fits == {i \in 1..5 : Windows(judge)[i] >= Abs(tap_deviation)}
        IN  IF fits = {}
            THEN judgement = "Miss"
            ELSE judgement = TapJudgements[CHOOSE i \in fits : \A k \in fits : i <= k]

\* J4, 90 ms early: exactly the great window
C15_Witness ==
    /\ judge = J4
    /\ tap_deviation = -90000
    /\ judgement = "Great"

\* C16: is_cb is true iff |deviation| is above the great window, Hit::is_cb
\* agrees with it on a hit and is true for a miss, so the combo-safe hits are
\* exactly those classified Marvelous, Perfect or Great.
C16_CbIffWorseThanGreat ==
    /\ cb # "none" =>
          /\ cb = Bool(Abs(tap_deviation) > judge.great_window)
          /\ cb = Bool(judgement \notin {"Marvelous", "Perfect", "Great"})
    /\ hit_cb # "none" =>
          hit_cb = Bool(hit = Miss \/ Abs(tap_deviation) > judge.great_window)

\* C17: every judge J1..J9 has 0 <= marvelous <= perfect <= great <= good <=
\* bad, and classify is monotone: of two deviations the one with the larger
\* absolute value never gets the better judgement.
C17_MonotoneJudgements ==
    /\ \A j \in Judges :
          /\ 0 <= j.marvelous_window
          /\ \A i \in 1..4 : Windows(j)[i] <= Windows(j)[i + 1]
    /\ (judgement # "none" /\ other_judgement # "none"
           /\ Abs(tap_deviation) <= Abs(other_deviation))
          => Severity(judgement) <= Severity(other_judgement)

\* J4: 22.5 ms late is Marvelous, 180.001 ms early is Miss
C17_Witness ==
    /\ judge = J4
    /\ tap_deviation = 22500
    /\ other_deviation = -180001
    /\ judgement = "Marvelous"
    /\ other_judgement = "Miss"

Finite(points) == [class |-> "finite", num |-> points, den |-> 1]

\* `proportion.is_infinite()`
is_infinite(x) == x.class \in {"infinity", "neg_infinity"}

\* structs/mod.rs, Wifescore::from_proportion
structs_mod_from_proportion(proportion) ==
    IF is_infinite(proportion) \/ is_nan(proportion) \/ GreaterThanOne(proportion)
    THEN None
    ELSE Some(proportion)

\* `percent / 100.0`
DivBy100(x) == IF x.class = "finite" THEN [x EXCEPT !.den = 100 * x.den] ELSE x

\* from_proportion that accepts everything
FromProportionOf_AcceptAll(file, proportion) == Some(proportion)

\* Wifescore::from_proportion of the file that is compiled
FromProportionOf(file, proportion) ==
    IF file = "structs.rs"
    THEN from_proportion(proportion)
    ELSE structs_mod_from_proportion(proportion)

\* Wifescore::from_percent (the same in both files)
from_percent(file, percent) == FromProportionOf(file, DivBy100(percent))

\* Wifescore::as_proportion
as_proportion(self) == self.proportion

\* D_THRESHOLD .. AAAAA_THRESHOLD of structs.rs: negative infinity, 0.60,
\* 0.70, 0.80, 0.93, 0.997, 0.99955, 0.99996, in wife points (truncated)
Thresholds ==
    {[class |-> "neg_infinity", num |-> 0, den |-> 0]}
    \cup {Finite(t) : t \in {157286, 183500, 209715, 243793, 261357, 262026, 262133}}

\* `#[derive(Default)]`: proportion 0.0
DefaultWifescore == Some(Finite(0))

\* ---- inputs of the constructors ----
ProportionMargin == 1

\* the arguments: NaN, the infinities, values at and around 1.0 (100.0 for
\* from_percent), 0.0, a negative value and a value far above the maximum
ArgInputs(scale) ==
    {[class |-> c, num |-> 0, den |-> 0] : c \in {"nan", "infinity", "neg_infinity"}}
    \cup {Finite(scale * WifeOne + m) : m \in (-ProportionMargin)..ProportionMargin}
    \cup {Finite(0), Finite(-scale * WifeOne), Finite(2 * scale * WifeOne)}

\* `Wifescore::from_proportion(proportion)`
FromProportion ==
    /\ wifescore_fn = "from_proportion"
    /\ made_wifescore = NotReturned
    /\ made_wifescore' = FromProportionOf(structs_file, proportion_arg)
    /\ UNCHANGED <<structs_file, wifescore_fn, proportion_arg, cmpVars>>
    /\ UNCHANGED exceptWifescore

\* `Wifescore::from_percent(percent)`
FromPercent ==
    /\ wifescore_fn = "from_percent"
    /\ made_wifescore = NotReturned
    /\ made_wifescore' = from_percent(structs_file, proportion_arg)
    /\ UNCHANGED <<structs_file, wifescore_fn, proportion_arg, cmpVars>>
    /\ UNCHANGED exceptWifescore

\* `Wifescore::default()`
WifescoreDefault ==
    /\ wifescore_fn = "default"
    /\ made_wifescore = NotReturned
    /\ made_wifescore' = DefaultWifescore
    /\ UNCHANGED <<structs_file, wifescore_fn, proportion_arg, cmpVars>>
    /\ UNCHANGED exceptWifescore

\* one of the threshold constants is read
WifescoreThreshold ==
    /\ wifescore_fn = "threshold"
    /\ made_wifescore = NotReturned
    /\ \E t \in Thresholds : made_wifescore' = Some(t)
    /\ UNCHANGED <<structs_file, wifescore_fn, proportion_arg, cmpVars>>
    /\ UNCHANGED exceptWifescore

\* the values a Wifescore can hold: what from_proportion accepts, the
\* threshold constants and the default
ValidWifescores ==
    {w \in {from_proportion(a) : a \in ArgInputs(1)} : w.some}
    \cup {Some(t) : t \in Thresholds}
    \cup {DefaultWifescore}

\* `#[derive(PartialOrd)]` on the one f32 field: f32::partial_cmp of the
\* proportions, None when either is NaN
partial_cmp(a, b) ==
    LET x == a.proportion
        y == b.proportion
        Rank(z) == IF z.class = "neg_infinity" THEN 0
                   ELSE IF z.class = "finite" THEN 1
                   ELSE 2
    IN  IF x.class = "nan" \/ y.class = "nan" THEN "None"
        ELSE IF Rank(x) < Rank(y) THEN "Less"
        ELSE IF Rank(x) > Rank(y) THEN "Greater"
        ELSE IF x.class # "finite" THEN "Equal"
        ELSE IF x.num * y.den < y.num * x.den THEN "Less"
        ELSE IF x.num * y.den > y.num * x.den THEN "Greater"
        ELSE "Equal"

\* `other.partial_cmp(other).expect("Can't happen; this wrapper guarantees non-NaN")`
cmp(self, other) ==
    LET o == partial_cmp(other, other)
    IN  IF o = "None" THEN "panicked" ELSE o

\* `a.cmp(&b)`
WifescoreCmp ==
    /\ wifescore_fn = "cmp"
    /\ ordering = "none"
    /\ ordering' = cmp(cmp_self, cmp_other)
    /\ UNCHANGED <<structs_file, wifescore_fn, proportion_arg, made_wifescore, cmp_self,
                   cmp_other>>
    /\ UNCHANGED exceptWifescore

\* a call of a constructor or of cmp, or a run of rescore or Wife::apply
\* (which use from_proportion of structs.rs)
InitWifescore ==
    /\ wifescore_fn \in {"idle", "from_proportion", "from_percent", "default", "threshold",
                          "cmp"}
    /\ cmp_self \in (IF wifescore_fn = "cmp" THEN ValidWifescores ELSE {NotReturned})
    /\ cmp_other \in (IF wifescore_fn = "cmp" THEN ValidWifescores ELSE {NotReturned})
    /\ ordering = "none"
    /\ structs_file \in
          (IF wifescore_fn \in {"from_proportion", "from_percent", "default"}
           THEN {"structs.rs", "structs/mod.rs"} ELSE {"structs.rs"})
    /\ proportion_arg \in
          (IF wifescore_fn = "from_proportion" THEN ArgInputs(1)
           ELSE IF wifescore_fn = "from_percent" THEN ArgInputs(100)
           ELSE {NoArg})
    /\ made_wifescore = NotReturned
    /\ column_scoring_result = NoScoringResult
    /\ lanes_done = 0
    /\ judge_bad_window \in (IF wifescore_fn = "idle" THEN 0..MaxLaneSecond ELSE {0})
    /\ num_mine_hits = 0
    /\ num_hold_drops = 0
    /\ rescore_wifescore_sum = 0
    /\ rescore_num_judged_notes = 0
    /\ last_hit = NoHit
    /\ wifescore = NotReturned
    /\ pc_rescore \in (IF wifescore_fn = "idle" THEN {"lanes", "apply"} ELSE {"idle"})
    /\ IdleRating
    /\ IdleScorer
    /\ IdleTimeline
    /\ IdleOverall
    /\ IdleJudge
    /\ IdleSubset
    /\ IdleParse

NextWifescore ==
    \/ FromProportion \/ FromPercent \/ WifescoreDefault \/ WifescoreThreshold
    \/ WifescoreCmp
    \/ RescoreAssertFails \/ RescoreLane \/ RescoreReturn \/ ApplyHit \/ ApplyReturn

SpecWifescore == InitWifescore /\ [][NextWifescore]_vars

(***************************************************************************)
(* Claims about Wifescore                                                  *)
(***************************************************************************)
\* `x <= 1.0` on f32 (false for NaN)
AtMostOne(x) ==
    \/ x.class = "neg_infinity"
    \/ x.class = "finite" /\ x.num <= x.den * WifeOne

\* C18: every Wifescore that a constructor, Default, a threshold constant,
\* rescore or Wife::apply gives has as_proportion() <= 1.0 and not NaN;
\* from_proportion returns None for NaN and for every value above 1.0, and
\* from_percent(p) returns what from_proportion(p / 100) returns.
C18_WifescoreBounds ==
    /\ [](/\ made_wifescore.some => AtMostOne(as_proportion(made_wifescore))
          /\ wifescore.some => AtMostOne(as_proportion(wifescore)))
    /\ [][/\ (wifescore_fn = "from_proportion" /\ made_wifescore' # made_wifescore
                 /\ (proportion_arg.class = "nan" \/ ~ AtMostOne(proportion_arg)))
                => made_wifescore' = None
          /\ (wifescore_fn = "from_percent" /\ made_wifescore' # made_wifescore)
                => made_wifescore' = FromProportionOf(structs_file, DivBy100(proportion_arg))
         ]_vars

\* from_percent of the float just above 100.0 has returned None
C18_Witness ==
    /\ wifescore_fn = "from_percent"
    /\ proportion_arg = Finite(100 * WifeOne + 1)
    /\ made_wifescore = None

\* C19: from_proportion and from_percent return None for positive infinity
\* and for negative infinity.
C19_NoneForInfinite ==
    (wifescore_fn \in {"from_proportion", "from_percent"}
        /\ made_wifescore # NotReturned
        /\ proportion_arg.class \in {"infinity", "neg_infinity"})
       => made_wifescore = None

(***************************************************************************)
(* note_subsets.rs.  Seconds and wife points are small integers; a speed   *)
(* is the quotient of two integers, kept as a fraction with a positive     *)
(* denominator, or an infinity or NaN where f32 division gives one.        *)
(***************************************************************************)
\* `a * b` in f32 for two such values
F32Mul(a, b) ==
    IF a.class = "nan" \/ b.class = "nan" THEN [class |-> "nan", num |-> 0, den |-> 0]
    ELSE IF a.class = "finite" /\ b.class = "finite"
         THEN [class |-> "finite", num |-> a.num * b.num, den |-> a.den * b.den]
    ELSE LET Sign(x) == IF x.class = "infinity" THEN 1
                        ELSE IF x.class = "neg_infinity" THEN -1
                        ELSE IF x.num > 0 THEN 1
                        ELSE IF x.num < 0 THEN -1
                        ELSE 0
             sign == Sign(a) * Sign(b)
         IN  IF sign = 0 THEN [class |-> "nan", num |-> 0, den |-> 0]
             ELSE IF sign > 0 THEN [class |-> "infinity", num |-> 0, den |-> 0]
             ELSE [class |-> "neg_infinity", num |-> 0, den |-> 0]

\* `a > b` in f32 (false when either is NaN)
f32_gt(a, b) ==
    /\ a.class # "nan"
    /\ b.class # "nan"
    /\ \/ a.class = "infinity" /\ b.class # "infinity"
       \/ a.class = "finite" /\ b.class = "neg_infinity"
       \/ a.class = "finite" /\ b.class = "finite" /\ a.num * b.den > b.num * a.den

\* `a == b` in f32 (false when either is NaN)
f32_eq(a, b) ==
    /\ a.class # "nan"
    /\ a.class = b.class
    /\ a.class = "finite" => a.num * b.den = b.num * a.den

\* `a >= b` in f32
f32_ge(a, b) == f32_gt(a, b) \/ f32_eq(a, b)

\* `(end_i - i) as f32 / (seconds[end_i] - seconds[i])` with end_i = i + n;
\* i counts from 0 as in the code
Nps(seconds, n, i) == F32Div(n, seconds[i + n + 1] - seconds[i + 1])

\* the window update with `>` for `>=`
ExamineWindow_Strict(seconds, n, i, nps, fast) ==
    IF f32_gt(nps, fast.speed)
    THEN [length |-> n, start_second |-> seconds[i + 1],
          end_second |-> seconds[i + n + 1], speed |-> nps]
    ELSE fast

\* `if nps >= fastest.speed { fastest = FastestComboInfo { .. } }`
ExamineWindow(seconds, n, i, nps, fast) ==
    IF f32_ge(nps, fast.speed)
    THEN [length |-> n, start_second |-> seconds[i + 1],
          end_second |-> seconds[i + n + 1], speed |-> nps]
    ELSE fast

\* end_n that leaves out the length max_num_notes
EndN_Exclusive(seconds, max) == Min(Len(seconds), max)

\* `let end_n = std::cmp::min(seconds.len(), max_num_notes as usize + 1);`
EndN(seconds, max) == Min(Len(seconds), max + 1)

\* `wife_pts[0..k].iter().sum()`
RECURSIVE SumFirst(_, _)
SumFirst(pts, k) == IF k = 0 THEN 0 ELSE SumFirst(pts, k - 1) + pts[k]

\* `nps *= wife_pts_sum / n as f32;`
TimesWifePts(nps, sum, n) == F32Mul(nps, F32Div(sum, n))

\* the window move that only adds
MoveWindow_NoSubtract(pts, sum, n, i) == sum + pts[i + n + 1]

\* `wife_pts_sum -= wife_pts[i]; wife_pts_sum += wife_pts[end_i];`
MoveWindow(pts, sum, n, i) == (sum - pts[i + 1]) + pts[i + n + 1]

\* the asserts at the head of the three functions
SubsetAssertsHold ==
    /\ wife_pts.some => Len(wife_pts.pts) = Len(subset_seconds)
    /\ is_sorted(subset_seconds)
    /\ max_num_notes >= min_num_notes

SearchFns == {"find_fastest_note_subset", "find_fastest_note_subset_wife_pts"}

subsetInputs == <<subset_fn, subset_seconds, min_num_notes, max_num_notes, wife_pts, are_cbs,
                  rate>>

\* one of the asserts fails
SubsetAssertFails ==
    /\ pc_subset = "start"
    /\ ~ SubsetAssertsHold
    /\ pc_subset' = "panicked"
    /\ UNCHANGED <<subsetInputs, subset_n, subset_i, fastest, wife_pts_sum,
                   wife_pts_sum_start, combo_start_i, cb_i, fastest_combo>>
    /\ UNCHANGED exceptSubset

\* `if seconds.len() <= min_num_notes as usize { return fastest }`
SubsetEarlyReturn ==
    /\ pc_subset = "start"
    /\ subset_fn \in SearchFns
    /\ SubsetAssertsHold
    /\ Len(subset_seconds) <= min_num_notes
    /\ fastest' = DefaultFastestComboInfo
    /\ pc_subset' = "done"
    /\ UNCHANGED <<subsetInputs, subset_n, subset_i, wife_pts_sum, wife_pts_sum_start,
                   combo_start_i, cb_i, fastest_combo>>
    /\ UNCHANGED exceptSubset

\* up to the first test of the inner loop: `fastest`, `wife_pts_sum_start`,
\* `end_n`, n = min_num_notes, `wife_pts_sum = wife_pts_sum_start`, i = 0
SubsetBegin ==
    /\ pc_subset = "start"
    /\ subset_fn \in SearchFns
    /\ SubsetAssertsHold
    /\ Len(subset_seconds) > min_num_notes
    /\ fastest' = DefaultFastestComboInfo
    /\ subset_n' = min_num_notes
    /\ subset_i' = 0
    /\ wife_pts_sum_start' =
          (IF wife_pts.some THEN SumFirst(wife_pts.pts, min_num_notes) ELSE 0)
    /\ wife_pts_sum' = wife_pts_sum_start'
    /\ pc_subset' = "windows"
    /\ UNCHANGED <<subsetInputs, combo_start_i, cb_i, fastest_combo>>
    /\ UNCHANGED exceptSubset

\* the speed of the window (n, i) as the called function computes it
WindowSpeed(seconds, pts, sum, n, i) ==
    IF pts.some THEN TimesWifePts(Nps(seconds, n, i), sum, n) ELSE Nps(seconds, n, i)

\* one iteration of `for i in 0..(seconds.len() - n)`
SubsetWindow ==
    /\ pc_subset = "windows"
    /\ subset_n < EndN(subset_seconds, max_num_notes)
    /\ subset_i < Len(subset_seconds) - subset_n
    /\ fastest' = ExamineWindow(subset_seconds, subset_n, subset_i,
                                WindowSpeed(subset_seconds, wife_pts, wife_pts_sum,
                                            subset_n, subset_i),
                                fastest)
    /\ wife_pts_sum' =
          (IF wife_pts.some
           THEN MoveWindow(wife_pts.pts, wife_pts_sum, subset_n, subset_i)
           ELSE wife_pts_sum)
    /\ subset_i' = subset_i + 1
    /\ UNCHANGED <<subsetInputs, subset_n, wife_pts_sum_start, combo_start_i, cb_i,
                   fastest_combo, pc_subset>>
    /\ UNCHANGED exceptSubset

\* the inner loop is over: `wife_pts_sum_start += wife_pts[n];`, the next n,
\* `let mut wife_pts_sum = wife_pts_sum_start;`, i = 0
SubsetNextLength ==
    /\ pc_subset = "windows"
    /\ subset_n < EndN(subset_seconds, max_num_notes)
    /\ subset_i = Len(subset_seconds) - subset_n
    /\ wife_pts_sum_start' =
          (IF wife_pts.some
           THEN wife_pts_sum_start + wife_pts.pts[subset_n + 1]
           ELSE wife_pts_sum_start)
    /\ wife_pts_sum' = wife_pts_sum_start'
    /\ subset_n' = subset_n + 1
    /\ subset_i' = 0
    /\ UNCHANGED <<subsetInputs, fastest, combo_start_i, cb_i, fastest_combo, pc_subset>>
    /\ UNCHANGED exceptSubset

\* the outer loop is over: `fastest`
SubsetReturn ==
    /\ pc_subset = "windows"
    /\ subset_n = EndN(subset_seconds, max_num_notes)
    /\ pc_subset' = "done"
    /\ UNCHANGED <<subsetInputs, subset_n, subset_i, fastest, wife_pts_sum,
                   wife_pts_sum_start, combo_start_i, cb_i, fastest_combo>>
    /\ UNCHANGED exceptSubset

\* the searches as functions of their arguments (asserts holding): the state
\* [fastest, sum] after the windows 0..k-1 of length n, entered with `st`
RECURSIVE InnerLoop(_, _, _, _, _)
InnerLoop(seconds, pts, n, k, st) ==
    IF k = 0 THEN st
    ELSE LET prev == InnerLoop(seconds, pts, n, k - 1, st)
         IN  [fastest |-> ExamineWindow(seconds, n, k - 1,
                                        WindowSpeed(seconds, pts, prev.sum, n, k - 1),
                                        prev.fastest),
              sum |-> IF pts.some THEN MoveWindow(pts.pts, prev.sum, n, k - 1) ELSE prev.sum]

\* `fastest` after the lengths min .. n_end - 1
RECURSIVE OuterLoop(_, _, _, _)
OuterLoop(seconds, pts, min, n_end) ==
    IF n_end <= min THEN DefaultFastestComboInfo
    ELSE LET n == n_end - 1
             start == IF pts.some THEN SumFirst(pts.pts, n) ELSE 0
         IN  InnerLoop(seconds, pts, n, Len(seconds) - n,
                       [fastest |-> OuterLoop(seconds, pts, min, n), sum |-> start]).fastest

\* find_fastest_note_subset (pts = NoWifePts) and find_fastest_note_subset_wife_pts
find_fastest(seconds, min, max, pts) ==
    IF Len(seconds) <= min THEN DefaultFastestComboInfo
    ELSE OuterLoop(seconds, pts, min, EndN(seconds, max))

\* the closure `trigger_combo_end` on the locals st = [combo_start_i, fastest_combo]
trigger_combo_end(st, combo_end_i) ==
    IF st.combo_start_i # NoIndex
    THEN LET combo == SubSeq(subset_seconds, st.combo_start_i + 1, combo_end_i)
             wife_pts_slice ==
                 IF wife_pts.some
                 THEN [some |-> TRUE,
                       pts |-> SubSeq(wife_pts.pts, st.combo_start_i + 1, combo_end_i)]
                 ELSE NoWifePts
             fastest_note_subset ==
                 find_fastest(combo, min_num_notes, max_num_notes, wife_pts_slice)
         IN  [combo_start_i |-> NoIndex,
              fastest_combo |-> IF f32_gt(fastest_note_subset.speed, st.fastest_combo.speed)
                                THEN fastest_note_subset
                                ELSE st.fastest_combo]
    ELSE [combo_start_i |-> NoIndex, fastest_combo |-> st.fastest_combo]

\* the asserts hold; `fastest_combo = default; combo_start_i = Some(0);`
ComboBegin ==
    /\ pc_subset = "start"
    /\ subset_fn = "find_fastest_combo_in_score"
    /\ SubsetAssertsHold
    /\ fastest_combo' = DefaultFastestComboInfo
    /\ combo_start_i' = 0
    /\ cb_i' = 0
    /\ pc_subset' = "cbs"
    /\ UNCHANGED <<subsetInputs, subset_n, subset_i, fastest, wife_pts_sum,
                   wife_pts_sum_start>>
    /\ UNCHANGED exceptSubset

\* an iteration of `for (i, is_cb) in are_cbs` with is_cb: `trigger_combo_end(i)`
ComboCb ==
    /\ pc_subset = "cbs"
    /\ cb_i < Len(are_cbs)
    /\ are_cbs[cb_i + 1]
    /\ LET st == trigger_combo_end([combo_start_i |-> combo_start_i,
                                    fastest_combo |-> fastest_combo], cb_i)
       IN  /\ combo_start_i' = st.combo_start_i
           /\ fastest_combo' = st.fastest_combo
    /\ cb_i' = cb_i + 1
    /\ UNCHANGED <<subsetInputs, subset_n, subset_i, fastest, wife_pts_sum,
                   wife_pts_sum_start, pc_subset>>
    /\ UNCHANGED exceptSubset

\* an iteration of that loop without a cb
ComboNoCb ==
    /\ pc_subset = "cbs"
    /\ cb_i < Len(are_cbs)
    /\ ~ are_cbs[cb_i + 1]
    /\ cb_i' = cb_i + 1
    /\ UNCHANGED <<subsetInputs, subset_n, subset_i, fastest, wife_pts_sum,
                   wife_pts_sum_start, combo_start_i, fastest_combo, pc_subset>>
    /\ UNCHANGED exceptSubset

\* `trigger_combo_end(seconds.len()); fastest_combo.speed *= rate; fastest_combo`
ComboReturn ==
    /\ pc_subset = "cbs"
    /\ cb_i = Len(are_cbs)
    /\ LET st == trigger_combo_end([combo_start_i |-> combo_start_i,
                                    fastest_combo |-> fastest_combo], Len(subset_seconds))
       IN  /\ combo_start_i' = st.combo_start_i
           /\ fastest_combo' =
                 [st.fastest_combo EXCEPT
                     !.speed = F32Mul(st.fastest_combo.speed, Finite(rate))]
    /\ pc_subset' = "done"
    /\ UNCHANGED <<subsetInputs, subset_n, subset_i, fastest, wife_pts_sum,
                   wife_pts_sum_start, cb_i>>
    /\ UNCHANGED exceptSubset

\* ---- inputs of the note subset functions ----
MaxSubsetLen == 4
MaxSubsetSecond == 2
MaxMinNotes == 2
MaxMaxNotes == 3

SortedSeconds == {s \in SeqsUpTo(0..MaxSubsetSecond, MaxSubsetLen) : is_sorted(s)}

\* some inputs on which `assert!(crate::util::is_sorted(seconds))` fails
UnsortedSeconds == {<<a, b>> : a \in 1..MaxSubsetSecond, b \in {0}}

Ones(len) == [some |-> TRUE, pts |-> [k \in 1..len |-> 1]]

\* the calls of test_find_fastest_note_subset
TestSubsetInputs ==
    {[seconds |-> <<0, 3, 5, 6, 8>>, min |-> 2, max |-> 99],
     [seconds |-> <<0, 3, 5, 6, 8>>, min |-> 3, max |-> 99],
     [seconds |-> <<0, 0, 1, 2, 3, 4, 4>>, min |-> 5, max |-> 6],
     [seconds |-> <<0, 0, 1, 2, 3, 4, 4>>, min |-> 5, max |-> 5]}

Rates == {1, 2}

InitSubset ==
    /\ \/ /\ subset_seconds \in SortedSeconds \cup UnsortedSeconds
          /\ min_num_notes \in 0..MaxMinNotes
          /\ max_num_notes \in 0..MaxMaxNotes
          /\ subset_fn \in SearchFns \cup {"find_fastest_combo_in_score"}
          /\ wife_pts \in
                (IF subset_fn = "find_fastest_note_subset" THEN {NoWifePts}
                 ELSE IF subset_fn = "find_fastest_note_subset_wife_pts"
                 THEN {[some |-> TRUE, pts |-> w] : w \in [1..Len(subset_seconds) -> {1, 2}]}
                 ELSE {NoWifePts, Ones(Len(subset_seconds))})
       \/ \E t \in TestSubsetInputs :
             /\ subset_seconds = t.seconds
             /\ min_num_notes = t.min
             /\ max_num_notes = t.max
             /\ subset_fn \in SearchFns
             /\ wife_pts = (IF subset_fn = "find_fastest_note_subset" THEN NoWifePts
                            ELSE Ones(Len(subset_seconds)))
    /\ are_cbs \in (IF subset_fn = "find_fastest_combo_in_score"
                    THEN [1..Len(subset_seconds) -> BOOLEAN] ELSE {<<>>})
    /\ rate \in (IF subset_fn = "find_fastest_combo_in_score" THEN Rates ELSE {1})
    /\ subset_n = 0
    /\ subset_i = 0
    /\ fastest = DefaultFastestComboInfo
    /\ wife_pts_sum = 0
    /\ wife_pts_sum_start = 0
    /\ combo_start_i = NoIndex
    /\ cb_i = 0
    /\ fastest_combo = DefaultFastestComboInfo
    /\ pc_subset = "start"
    /\ IdleRating
    /\ IdleScorer
    /\ IdleRescore
    /\ IdleTimeline
    /\ IdleOverall
    /\ IdleJudge
    /\ IdleWifescore
    /\ IdleParse

NextSubset ==
    \/ SubsetAssertFails \/ SubsetEarlyReturn \/ SubsetBegin \/ SubsetWindow
    \/ SubsetNextLength \/ SubsetReturn
    \/ ComboBegin \/ ComboCb \/ ComboNoCb \/ ComboReturn

SpecSubset == InitSubset /\ [][NextSubset]_vars

(***************************************************************************)
(* Claims about the note subset functions                                  *)
(***************************************************************************)
TestSeconds == <<0, 3, 5, 6, 8>>

\* the value find_fastest_note_subset returned is the window from second a to
\* second b of length n, with speed n / (b - a)
ReturnedWindow(a, b, n) ==
    /\ fastest.start_second = a
    /\ fastest.end_second = b
    /\ fastest.length = n
    /\ f32_eq(fastest.speed, F32Div(n, b - a))

\* C22 as stated: for seconds [0, 3, 5, 6, 8] find_fastest_note_subset with
\* min 2 / max 99 returns the window from second 3 to second 6 (length 2,
\* speed 2/3), with min 3 / max 99 the window from 3 to 8 (length 3, speed 0.6).
C22_FastestSubsetOfTest ==
    (/\ pc_subset = "done"
     /\ subset_fn = "find_fastest_note_subset"
     /\ subset_seconds = TestSeconds
     /\ max_num_notes = 99) =>
        /\ min_num_notes = 2 => ReturnedWindow(3, 6, 2)
        /\ min_num_notes = 3 => ReturnedWindow(3, 8, 3)

\* what the code returns: with min 2 / max 99 the window from second 5 to
\* second 8 (length 2, speed 2/3), the last of the two equally fast windows
\* [3, 6] and [5, 8]; with min 3 / max 99 the window from 3 to 8 (length 3,
\* speed 0.6).
C22_LastFastestSubsetOfTest ==
    (/\ pc_subset = "done"
     /\ subset_fn = "find_fastest_note_subset"
     /\ subset_seconds = TestSeconds
     /\ max_num_notes = 99) =>
        /\ min_num_notes = 2 => ReturnedWindow(5, 8, 2)
        /\ min_num_notes = 3 => ReturnedWindow(3, 8, 3)

C22_Witness ==
    /\ pc_subset = "done"
    /\ subset_fn = "find_fastest_note_subset"
    /\ subset_seconds = TestSeconds
    /\ min_num_notes = 2
    /\ max_num_notes = 99
    /\ fastest.start_second = 5
    /\ fastest.length = 2

C22_WitnessMin3 ==
    /\ pc_subset = "done"
    /\ subset_fn = "find_fastest_note_subset"
    /\ subset_seconds = TestSeconds
    /\ min_num_notes = 3
    /\ fastest.end_second = 8

\* the maximal cb-free runs of the score, as <<a, b>> for the notes a .. b - 1
\* (counted from 0): a is 0 or follows a cb, b is a cb or the end
Combos ==
    {r \in (0..Len(are_cbs)) \X (0..Len(are_cbs)) :
        /\ r[1] <= r[2]
        /\ \A k \in (r[1] + 1)..r[2] : ~ are_cbs[k]
        /\ r[1] = 0 \/ are_cbs[r[1]]
        /\ r[2] = Len(are_cbs) \/ are_cbs[r[2] + 1]}

\* the fastest note subset of the combo r, its speed multiplied by rate
FastestOfCombo(r) ==
    LET sub == find_fastest(SubSeq(subset_seconds, r[1] + 1, r[2]), min_num_notes,
                            max_num_notes,
                            IF wife_pts.some
                            THEN [some |-> TRUE, pts |-> SubSeq(wife_pts.pts, r[1] + 1, r[2])]
                            ELSE NoWifePts)
    IN  [sub EXCEPT !.speed = F32Mul(sub.speed, Finite(rate))]

\* C23: find_fastest_combo_in_score returns the fastest note subset found in
\* any combo of the score: every maximal cb-free run (the first, the middle
\* ones and the last) is searched, and the result is the fastest subset over
\* all of them with its speed multiplied by rate.
C23_FastestOverAllCombos ==
    (pc_subset = "done" /\ subset_fn = "find_fastest_combo_in_score") =>
        /\ \A r \in Combos : f32_ge(fastest_combo.speed, FastestOfCombo(r).speed)
        /\ \E r \in Combos : fastest_combo = FastestOfCombo(r)

\* what the code does: only the notes before the first cb are searched
C23_OnlyFirstCombo ==
    (pc_subset = "done" /\ subset_fn = "find_fastest_combo_in_score") =>
        \E r \in Combos : r[1] = 0 /\ fastest_combo = FastestOfCombo(r)

(***************************************************************************)
(* savegame.rs: parse_replay_v2_fast.  A byte is a one-character string.   *)
(***************************************************************************)
Digits == <<"0", "1", "2", "3", "4", "5", "6", "7", "8", "9">>

IsDigit(c) == \E d \in 1..10 : Digits[d] = c

\* the value of the byte c
Byte(c) ==
    IF IsDigit(c) THEN 47 + (CHOOSE d \in 1..10 : Digits[d] = c)
    ELSE CASE c = "\n" -> 10
           [] c = " " -> 32
           [] c = "!" -> 33
           [] c = "." -> 46
           [] c = "H" -> 72
           [] c = "x" -> 120

\* the pieces of s between the separators sep
RECURSIVE SplitOn(_, _)
SplitOn(s, sep) ==
    IF s = <<>> THEN << <<>> >>
    ELSE LET rest == SplitOn(Tail(s), sep)
         IN  IF Head(s) = sep THEN << <<>> >> \o rest
             ELSE << <<Head(s)>> \o rest[1] >> \o Tail(rest)

\* crate::util::split_newlines: the lines of the buffer
split_newlines(bytes) == SplitOn(bytes, "\n")

\* `line.splitn(k, |&c| c == b' ')`: at most k pieces, the last one holding
\* the rest of the line
RECURSIVE splitn(_, _)
splitn(line, k) ==
    IF k = 1 \/ ~ \E j \in 1..Len(line) : line[j] = " " THEN << line >>
    ELSE LET first == CHOOSE j \in 1..Len(line) :
                          line[j] = " " /\ \A m \in 1..(j - 1) : line[m] # " "
         IN  << SubSeq(line, 1, first - 1) >>
             \o splitn(SubSeq(line, first + 1, Len(line)), k - 1)

Ok(x) == [ok |-> TRUE, value |-> x]
Err == [ok |-> FALSE]

RECURSIVE DecimalValue(_)
DecimalValue(s) ==
    IF s = <<>> THEN 0
    ELSE 10 * DecimalValue(SubSeq(s, 1, Len(s) - 1)) + (Byte(s[Len(s)]) - Byte("0"))

\* btoi::btou: a non-empty string of decimal digits
btou(s) ==
    IF s # <<>> /\ \A j \in 1..Len(s) : IsDigit(s[j]) THEN Ok(DecimalValue(s)) ELSE Err

\* lexical_core::parse / parse_lossy of an unsigned decimal: digits with at
\* most one point and at least one digit; the value as a fraction
parse_float(s) ==
    LET points == {j \in 1..Len(s) : s[j] = "."}
        digits == {j \in 1..Len(s) : IsDigit(s[j])}
    IN  IF /\ Cardinality(points) <= 1
           /\ digits # {}
           /\ points \cup digits = 1..Len(s)
        THEN LET point == IF points = {} THEN Len(s) + 1 ELSE CHOOSE j \in points : TRUE
             IN  Ok([num |-> DecimalValue(SubSeq(s, 1, point - 1)
                                          \o SubSeq(s, point + 1, Len(s))),
                     den |-> 10 ^ (IF points = {} THEN 0 ELSE Len(s) - point)])
        ELSE Err

\* `deviation.starts_with(b"1.0")`
starts_with(s, prefix) == Len(s) >= Len(prefix) /\ SubSeq(s, 1, Len(prefix)) = prefix

\* `c - b'0'` on u8: fails under overflow checks when c < b'0', wraps otherwise
MinusZero(c, checks) ==
    IF Byte(c) >= Byte("0") THEN Ok(Byte(c) - Byte("0"))
    ELSE IF checks THEN Err
    ELSE Ok(Byte(c) - Byte("0") + 256)

\* the body of `for line in ..`: what the line does
ParseLine(line, checks) ==
    IF Len(line) = 0 THEN [kind |-> "skip"]
    ELSE IF line[1] = "H" THEN [kind |-> "hold_drop"]
    ELSE LET token_iter == splitn(line, 3)
             tick == btou(token_iter[1])
         IN  IF ~ tick.ok THEN [kind |-> "skip"]
             ELSE IF Len(token_iter) < 2 THEN [kind |-> "panic"]
             ELSE LET is_miss == starts_with(token_iter[2], <<"1", ".", "0">>)
                      parsed == parse_float(token_iter[2])
                  IN  IF ~ is_miss /\ ~ parsed.ok THEN [kind |-> "skip"]
                      ELSE IF Len(token_iter) < 3 THEN [kind |-> "panic"]
                      ELSE LET remainder == token_iter[3]
                           IN  IF Len(remainder) = 0 THEN [kind |-> "panic"]
                               ELSE LET column == MinusZero(remainder[1], checks)
                                        note_type ==
                                            IF Len(remainder) >= 3
                                            THEN MinusZero(remainder[3], checks)
                                            ELSE Ok(1)
                                    IN  IF ~ column.ok \/ ~ note_type.ok
                                        THEN [kind |-> "panic"]
                                        ELSE IF note_type.value \in {1, 2}
                                        THEN [kind |-> "note",
                                              note |-> [tick |-> tick.value,
                                                        hit |-> IF is_miss THEN Miss
                                                                ELSE Hit(parsed.value),
                                                        column |-> column.value]]
                                        ELSE IF note_type.value = 4
                                        THEN [kind |-> "mine_hit"]
                                        ELSE IF note_type.value \in {5, 7}
                                        THEN [kind |-> "ignored"]
                                        ELSE [kind |-> "warning"]

\* the line the loop is at
CurrentLine == split_newlines(replay_bytes)[lines_done + 1]

AtLine(kinds) ==
    /\ pc_parse = "lines"
    /\ lines_done < Len(split_newlines(replay_bytes))
    /\ ParseLine(CurrentLine, overflow_checks).kind \in kinds

\* `continue`: an empty line, an unparsable tick or deviation
ParseSkip ==
    /\ AtLine({"skip"})
    /\ lines_done' = lines_done + 1
    /\ UNCHANGED <<replay_bytes, overflow_checks, replay_notes, replay_num_mine_hits,
                   replay_num_hold_drops, pc_parse>>
    /\ UNCHANGED exceptParse

\* `num_hold_drops += 1; continue;`
ParseHoldDrop ==
    /\ AtLine({"hold_drop"})
    /\ replay_num_hold_drops' = replay_num_hold_drops + 1
    /\ lines_done' = lines_done + 1
    /\ UNCHANGED <<replay_bytes, overflow_checks, replay_notes, replay_num_mine_hits, pc_parse>>
    /\ UNCHANGED exceptParse

\* `1 | 2 => notes.push(ReplayV2Note { tick, hit: deviation, column })`
ParseNote ==
    /\ AtLine({"note"})
    /\ replay_notes' = Append(replay_notes, ParseLine(CurrentLine, overflow_checks).note)
    /\ lines_done' = lines_done + 1
    /\ UNCHANGED <<replay_bytes, overflow_checks, replay_num_mine_hits, replay_num_hold_drops,
                   pc_parse>>
    /\ UNCHANGED exceptParse

\* `4 => num_mine_hits += 1`
ParseMineHit ==
    /\ AtLine({"mine_hit"})
    /\ replay_num_mine_hits' = replay_num_mine_hits + 1
    /\ lines_done' = lines_done + 1
    /\ UNCHANGED <<replay_bytes, overflow_checks, replay_notes, replay_num_hold_drops, pc_parse>>
    /\ UNCHANGED exceptParse

\* `5 | 7 => {}` and `other => eprintln!(..)`
ParseOtherType ==
    /\ AtLine({"ignored", "warning"})
    /\ lines_done' = lines_done + 1
    /\ UNCHANGED <<replay_bytes, overflow_checks, replay_notes, replay_num_mine_hits,
                   replay_num_hold_drops, pc_parse>>
    /\ UNCHANGED exceptParse

\* an `expect` on a missing token, `remainder[0]` on an empty remainder, or a
\* checked `- b'0'` on a byte below b'0'
ParsePanic ==
    /\ AtLine({"panic"})
    /\ pc_parse' = "panicked"
    /\ UNCHANGED <<replay_bytes, overflow_checks, lines_done, replay_notes,
                   replay_num_mine_hits, replay_num_hold_drops>>
    /\ UNCHANGED exceptParse

\* the loop is over: `ReplayV2Fast { notes, num_mine_hits, num_hold_drops }`
ParseReturn ==
    /\ pc_parse = "lines"
    /\ lines_done = Len(split_newlines(replay_bytes))
    /\ pc_parse' = "done"
    /\ UNCHANGED <<replay_bytes, overflow_checks, lines_done, replay_notes,
                   replay_num_mine_hits, replay_num_hold_drops>>
    /\ UNCHANGED exceptParse

\* ---- inputs of parse_replay_v2_fast ----
MaxFields == 4
MaxLines == 2

\* what the k-th space-separated field of a line may be
FieldInputs(k) ==
    CASE k = 1 -> {<<>>, <<"1">>, <<"1", "2">>, <<"x">>, <<"H">>}
      [] k = 2 -> {<<>>, <<"0", ".", "5">>, <<"1", ".", "0">>, <<"1", ".", "0", "x">>, <<"x">>}
      [] k = 3 -> {<<>>, <<"0">>, <<"3">>, <<"!">>, <<"1", "0">>}
      [] k = 4 -> {<<>>, <<"1">>, <<"2">>, <<"4">>, <<"5">>, <<"7">>, <<"9">>, <<"!">>}
      [] OTHER -> {<<"x">>}

\* the lines of k fields, joined by single spaces
RECURSIVE LinesOf(_)
LinesOf(k) ==
    IF k = 1 THEN FieldInputs(1)
    ELSE {l \o <<" ">> \o f : l \in LinesOf(k - 1), f \in FieldInputs(k)}

LineInputs == UNION {LinesOf(k) : k \in 1..MaxFields}

\* a tap, a mine hit and a hold drop as Etterna writes them
GoodLines ==
    {<<"1", " ", "0", ".", "5", " ", "0", " ", "1">>,
     <<"1", " ", "0", ".", "5", " ", "0", " ", "4">>,
     <<"H">>}

\* one line of LineInputs, then up to MaxLines - 1 good lines
RECURSIVE GoodSuffixes(_)
GoodSuffixes(k) ==
    IF k = 0 THEN {<<>>}
    ELSE GoodSuffixes(k - 1)
         \cup {s \o <<"\n">> \o g : s \in GoodSuffixes(k - 1), g \in GoodLines}

InitParse ==
    /\ replay_bytes \in {l \o s : l \in LineInputs, s \in GoodSuffixes(MaxLines - 1)}
    /\ overflow_checks \in BOOLEAN
    /\ lines_done = 0
    /\ replay_notes = <<>>
    /\ replay_num_mine_hits = 0
    /\ replay_num_hold_drops = 0
    /\ pc_parse = "lines"
    /\ IdleRating
    /\ IdleScorer
    /\ IdleRescore
    /\ IdleTimeline
    /\ IdleOverall
    /\ IdleJudge
    /\ IdleWifescore
    /\ IdleSubset

NextParse ==
    \/ ParseSkip \/ ParseHoldDrop \/ ParseNote \/ ParseMineHit \/ ParseOtherType
    \/ ParsePanic \/ ParseReturn

SpecParse == InitParse /\ [][NextParse]_vars

\* C24: parse_replay_v2_fast never aborts: for every byte buffer each line
\* that is not well-formed is skipped and the function returns.
C24_NeverAborts == pc_parse # "panicked"

\* the lines on which it aborts in every build: a valid tick with no
\* deviation token, a valid deviation with no column token or an empty one
C24_AbortsOnMissingToken ==
    (pc_parse = "panicked" /\ ~ overflow_checks) =>
        LET token_iter == splitn(CurrentLine, 3)
        IN  \/ Len(token_iter) = 1
            \/ Len(token_iter) = 2
            \/ token_iter[3] = <<>>

\* the windows (n, i) of lengths from..=min(max_num_notes, len - 1), i from 0
WindowsFrom(from) ==
    {w \in (from..Min(max_num_notes, Len(subset_seconds) - 1)) \X (0..Len(subset_seconds)) :
        w[2] + w[1] < Len(subset_seconds)}

\* the FastestComboInfo of the window w, with speed n / (seconds[i+n] - seconds[i])
InfoOf(w) ==
    [length |-> w[1], start_second |-> subset_seconds[w[2] + 1],
     end_second |-> subset_seconds[w[2] + w[1] + 1],
     speed |-> Nps(subset_seconds, w[1], w[2])]

\* `fastest` is a fastest window of W, and of those one of the greatest length
ReturnsFastestOf(W) ==
    \E w \in W :
        /\ fastest = InfoOf(w)
        /\ \A v \in W : f32_ge(InfoOf(w).speed, InfoOf(v).speed)
        /\ \A v \in W : f32_eq(InfoOf(v).speed, InfoOf(w).speed) => v[1] <= w[1]

\* C27 as stated: for every sorted seconds sequence with more than
\* min_num_notes entries find_fastest_note_subset returns a window (n, i) with
\* n in min_num_notes..=min(max_num_notes, len - 1) whose speed is the maximum
\* over all such windows, and among those of maximal speed one of the greatest
\* length; with at most min_num_notes entries it returns length 0 and speed 0.
C27_FastestWindow ==
    (pc_subset = "done" /\ subset_fn = "find_fastest_note_subset") =>
        IF Len(subset_seconds) > min_num_notes
        THEN ReturnsFastestOf(WindowsFrom(min_num_notes))
        ELSE fastest.length = 0 /\ f32_eq(fastest.speed, Finite(0))

\* C27 (amended): the same over the windows of length n >= 1; when there is
\* none (at most min_num_notes entries, or max_num_notes = 0) it returns the
\* dummy value of length 0 and speed 0.
C27_FastestWindowOfPositiveLength ==
    (pc_subset = "done" /\ subset_fn = "find_fastest_note_subset") =>
        LET W == WindowsFrom(IF min_num_notes = 0 THEN 1 ELSE min_num_notes)
        IN  IF Len(subset_seconds) > min_num_notes /\ W # {}
            THEN ReturnsFastestOf(W)
            ELSE fastest = DefaultFastestComboInfo

\* windows of length 1 and 2 of the same speed: the longer one is returned
C27_Witness ==
    /\ pc_subset = "done"
    /\ subset_fn = "find_fastest_note_subset"
    /\ subset_seconds = <<0, 1, 2>>
    /\ min_num_notes = 1
    /\ max_num_notes = 2
    /\ fastest = [length |-> 2, start_second |-> 0, end_second |-> 2,
                  speed |-> [class |-> "finite", num |-> 2, den |-> 2]]

\* min_num_notes = 0: the windows of length 0 are passed over
C27_WitnessMinZero ==
    /\ pc_subset = "done"
    /\ subset_fn = "find_fastest_note_subset"
    /\ subset_seconds = <<0, 1>>
    /\ min_num_notes = 0
    /\ max_num_notes = 1
    /\ fastest.length = 1


\* `wife_pts[i..i + n].iter().sum()`, i counting from 0
WindowSum(pts, n, i) == SumFirst(pts, i + n) - SumFirst(pts, i)

\* C28: find_fastest_note_subset_wife_pts called with wife_pts all 1 returns
\* the same start_second, end_second, length and speed as
\* find_fastest_note_subset on the same seconds, min and max; and at every
\* window (n, i) it examines, its running wife_pts_sum is the sum of
\* wife_pts[i..i+n].
C28_WifePtsOfOnesIsPlainSearch ==
    /\ (/\ pc_subset = "done"
        /\ subset_fn = "find_fastest_note_subset_wife_pts"
        /\ wife_pts = Ones(Len(subset_seconds))) =>
          LET plain == find_fastest(subset_seconds, min_num_notes, max_num_notes, NoWifePts)
          IN  /\ fastest.start_second = plain.start_second
              /\ fastest.end_second = plain.end_second
              /\ fastest.length = plain.length
              /\ f32_eq(fastest.speed, plain.speed)
    /\ (/\ pc_subset = "done"
        /\ subset_fn = "find_fastest_note_subset") =>
          fastest = find_fastest(subset_seconds, min_num_notes, max_num_notes, NoWifePts)
    /\ (/\ pc_subset = "windows"
        /\ subset_fn = "find_fastest_note_subset_wife_pts"
        /\ subset_n < EndN(subset_seconds, max_num_notes)
        /\ subset_i < Len(subset_seconds) - subset_n) =>
          wife_pts_sum = WindowSum(wife_pts.pts, subset_n, subset_i)

\* a search over windows of two lengths with wife_pts all 1
C28_Witness ==
    /\ pc_subset = "done"
    /\ subset_fn = "find_fastest_note_subset_wife_pts"
    /\ subset_seconds = <<0, 1, 2>>
    /\ wife_pts.pts = <<1, 1, 1>>
    /\ min_num_notes = 1
    /\ max_num_notes = 2
    /\ fastest.length = 2

\* the running sum at a window that is neither the first of its length nor
\* the shortest, with unequal wife points
C28_WitnessRunningSum ==
    /\ pc_subset = "windows"
    /\ subset_fn = "find_fastest_note_subset_wife_pts"
    /\ wife_pts.pts = <<1, 2, 1, 2>>
    /\ min_num_notes = 1
    /\ subset_n = 2
    /\ subset_i = 1
    /\ wife_pts_sum = 3


(***************************************************************************)
(* Claims about the order of Wifescore                                     *)
(***************************************************************************)
\* C29: Ord::cmp on Wifescore agrees with the numeric order of the
\* proportions: a.cmp(b) is Less iff a.as_proportion() < b.as_proportion(),
\* Greater iff it is greater, and Equal iff they are equal.
C29_CmpIsNumericOrder ==
    ordering # "none" =>
        LET a == as_proportion(cmp_self)
            b == as_proportion(cmp_other)
        IN  /\ ordering = "Less" <=> f32_gt(b, a)
            /\ ordering = "Greater" <=> f32_gt(a, b)
            /\ ordering = "Equal" <=> f32_eq(a, b)

\* what the code does: every comparison of two valid values is Equal
C29_CmpIsAlwaysEqual == ordering \in {"none", "Equal"}

\* the AAA threshold compared with the AA threshold
C29_UnequalCompared ==
    /\ ordering # "none"
    /\ as_proportion(cmp_self) = Finite(261357)
    /\ as_proportion(cmp_other) = Finite(243793)

====
